---- MODULE Spec2Model ----
(***************************************************************************)
(* Verification model of the BTD-thermal domain core: the shape kernel     *)
(* (models/shape.py), the shape grammar parser (parser/shape_parser.py),   *)
(* the material and composite-material models (models/material.py,         *)
(* models/composite.py) and the Section / SectionComponent assembly with   *)
(* template resolution (models/geometry.py, core/thermal_info.py).         *)
(*                                                                         *)
(* Numbers.  Every length is an integer counting half-thousandths of the   *)
(* description's length unit, so that the parser's replacement dimension   *)
(* 0.001 is the integer CubeMinDim = 2 and halving an even length is       *)
(* exact.  Inputs are drawn as even counts.  Irrational factors (pi,       *)
(* sqrt 3, sines) are fixed-point fractions over FixDen.  Material         *)
(* properties are exact rationals [n, d]; the code uses binary floating    *)
(* point, whose rounding is not modelled.                                  *)
(***************************************************************************)
EXTENDS Integers, Sequences, FiniteSets, TLC

VARIABLES
    req,            \* shape kernel: the last request (constructor call, parse, ...)
    res,            \* shape kernel: the outcome of the last request
    temperature_map,\* MaterialInfo.temperature_map of the material under test
    query,          \* the last material / composite query and its outcome
    materials,      \* CompositeMaterial.materials: list of (material, percentage)
    original_data,  \* the loaded description: templates and sections tables
    sections,       \* ThermalInfo.sections: the Sections built so far
    registry,       \* MaterialInfosMgr.materials: the registered materials
    thermal_info_templates, \* the attribute `templates` of the thermal_info object
    runtime_sections \* ThermalInfo.runtime_sections

vars == <<req, res, temperature_map, query, materials, original_data, sections, registry, thermal_info_templates, runtime_sections>>

\* ------------------------------------------------------------------------
\* Bounds of the model
\* ------------------------------------------------------------------------
MaxDimSteps == 3
MaxPosSteps == 0
MaxSides == 4

\* dimensions offered to constructors and to the parser (0 is the invalid one)
DimVals == {2 * i : i \in 0..MaxDimSteps}
\* coordinates offered
PosVals == {2 * i : i \in (-1)..MaxPosSteps}
\* side counts offered (2 is the invalid one)
SideVals == 2..MaxSides

\* ------------------------------------------------------------------------
\* Program constants
\* ------------------------------------------------------------------------
\* 0.001, the dimension the cube rule substitutes for a non-positive one
CubeMinDim == 2
\* denominator of the fixed-point fractions standing for math.pi, sqrt(3), sin
FixDen == 1000
\* math.pi * FixDen
PiNum == 3142
\* math.sqrt(3) * FixDen
Sqrt3Num == 1732

\* ------------------------------------------------------------------------
\* Python values that reach a constructor parameter
\* ------------------------------------------------------------------------
Num(n) == [t |-> "num", n |-> n]
Vec(x, y, z) == [t |-> "vec", x |-> x, y |-> y, z |-> z]
NoneVal == [t |-> "none"]
Obj(s) == [t |-> "obj", s |-> s]

\* outcome of a call: a value or a raised exception
Ok(v) == [ok |-> TRUE, v |-> v]
Raise(e) == [ok |-> FALSE, err |-> e, msg |-> ""]
RaiseMsg(e, m) == [ok |-> FALSE, err |-> e, msg |-> m]

Min2(a, b) == IF a <= b THEN a ELSE b
Max2(a, b) == IF a >= b THEN a ELSE b
Abs(a) == IF a < 0 THEN -a ELSE a

\* `a <= 0 or b <= 0 or ...` evaluated left to right on Python values:
\* comparing a Vector3D with 0 raises TypeError, a non-positive number makes
\* the constructor raise ValueError, short-circuiting the rest.
RECURSIVE PosCheck(_)
PosCheck(vals) ==
    IF vals = <<>> THEN "ok"
    ELSE IF Head(vals).t # "num" THEN "TypeError"
    ELSE IF Head(vals).n <= 0 THEN "ValueError"
    ELSE PosCheck(Tail(vals))

\* Shape.__init__ / Shape2D.__init__: `position if position else Vector3D(0,0,0)`
\* (None and the number 0 are falsy; any other value is kept as it is)
BasePosition(position) ==
    IF position.t = "none" THEN Vec(0, 0, 0)
    ELSE IF position.t = "num" /\ position.n = 0 THEN Vec(0, 0, 0)
    ELSE position

\* ------------------------------------------------------------------------
\* Exact rationals [n, d] with d > 0, kept in lowest terms
\* ------------------------------------------------------------------------
RECURSIVE Gcd(_, _)
Gcd(a, b) == IF b = 0 THEN a ELSE Gcd(b, a % b)

R(n, d) ==
    LET s == IF d < 0 THEN -1 ELSE 1
        g == Gcd(Abs(n), Abs(d))
    IN  [n |-> (s * n) \div g, d |-> (s * d) \div g]

RInt(n) == [n |-> n, d |-> 1]
RAdd(a, b) == R(a.n * b.d + b.n * a.d, a.d * b.d)
RSub(a, b) == R(a.n * b.d - b.n * a.d, a.d * b.d)
RMul(a, b) == R(a.n * b.n, a.d * b.d)
RDiv(a, b) == R(a.n * b.d, a.d * b.n)
RLe(a, b) == a.n * b.d <= b.n * a.d
REq(a, b) == a.n * b.d = b.n * a.d

\* math.pi and math.sqrt(3)
Pi == R(PiNum, FixDen)
Sqrt3 == R(Sqrt3Num, FixDen)

\* math.sin(math.pi / sides) and math.cos(math.pi / sides), to three decimals
SinPiOver(sides) ==
    R(CASE sides = 3 -> 866 [] sides = 4 -> 707 [] sides = 5 -> 588
        [] sides = 6 -> 500 [] sides = 7 -> 434 [] OTHER -> 383, FixDen)
CosPiOver(sides) ==
    R(CASE sides = 3 -> 500 [] sides = 4 -> 707 [] sides = 5 -> 809
        [] sides = 6 -> 866 [] sides = 7 -> 901 [] OTHER -> 924, FixDen)

\* abs(math.sin(math.radians(a))) for the skew angles offered (0 and 90)
AbsSinDeg(a) == IF a % 180 = 0 THEN 0 ELSE 1

\* ------------------------------------------------------------------------
\* models/shape.py: constructors of the 3D variants.  Parameters are in the
\* declared (positional) order; each returns Ok(shape) or Raise(exception).
\* ------------------------------------------------------------------------
\* Cube.__init__ with the `length <= 0 or width <= 0 or height <= 0` test
\* removed: the variant the dimension properties must be able to tell apart
Cube_unchecked(position, length, width, height) ==
    Ok([kind |-> "cube", position |-> BasePosition(position),
        is_modified |-> FALSE,
        length |-> length.n, width |-> width.n, height |-> height.n])

Cube(position, length, width, height) ==
    LET c == PosCheck(<<length, width, height>>)
    IN  IF c # "ok" THEN Raise(c)
        ELSE Ok([kind |-> "cube", position |-> BasePosition(position),
                 is_modified |-> FALSE,
                 length |-> length.n, width |-> width.n, height |-> height.n])

HexagonalPrism(position, diameter, height) ==
    LET c == PosCheck(<<diameter, height>>)
    IN  IF c # "ok" THEN Raise(c)
        ELSE Ok([kind |-> "hexagonal_prism", position |-> BasePosition(position),
                 is_modified |-> FALSE,
                 diameter |-> diameter.n, height |-> height.n,
                 radius |-> diameter.n \div 2,
                 side_length |-> RDiv(RMul(RInt(diameter.n), Sqrt3), RInt(2))])

ObliqueCube(position, length, width, height, skew_x, skew_y) ==
    LET c == PosCheck(<<length, width, height>>)
    IN  IF c # "ok" THEN Raise(c)
        ELSE IF skew_x.t # "num" \/ skew_y.t # "num" THEN Raise("TypeError")
        ELSE Ok([kind |-> "oblique_cube", position |-> BasePosition(position),
                 is_modified |-> FALSE,
                 length |-> length.n, width |-> width.n, height |-> height.n,
                 skew_x |-> skew_x.n, skew_y |-> skew_y.n])

RectPrism(position, length, width, height) ==
    LET c == PosCheck(<<length, width, height>>)
    IN  IF c # "ok" THEN Raise(c)
        ELSE Ok([kind |-> "rect_prism", position |-> BasePosition(position),
                 is_modified |-> FALSE,
                 length |-> length.n, width |-> width.n, height |-> height.n])

SquarePrism(position, side, height) ==
    LET c == PosCheck(<<side, height>>)
    IN  IF c # "ok" THEN Raise(c)
        ELSE Ok([kind |-> "square_prism", position |-> BasePosition(position),
                 is_modified |-> FALSE,
                 side |-> side.n, height |-> height.n])

OblongXPrism(position, length, width, height) ==
    LET c == PosCheck(<<length, width, height>>)
    IN  IF c # "ok" THEN Raise(c)
        ELSE Ok([kind |-> "oblong_x_prism", position |-> BasePosition(position),
                 is_modified |-> FALSE,
                 length |-> length.n, width |-> width.n, height |-> height.n,
                 radius_x |-> length.n \div 2, radius_y |-> width.n \div 2])

OblongYPrism(length, width, height, position) ==
    LET c == PosCheck(<<length, width, height>>)
    IN  IF c # "ok" THEN Raise(c)
        ELSE Ok([kind |-> "oblong_y_prism", position |-> BasePosition(position),
                 is_modified |-> FALSE,
                 length |-> length.n, width |-> width.n, height |-> height.n,
                 radius_x |-> width.n \div 2, radius_y |-> length.n \div 2])

RoundedRectPrism(width, height, depth, radius, position) ==
    LET c == PosCheck(<<width, height, depth, radius>>)
    IN  IF c # "ok" THEN Raise(c)
        ELSE IF 2 * radius.n > Min2(width.n, depth.n) THEN Raise("ValueError")
        ELSE Ok([kind |-> "rounded_rect_prism", position |-> BasePosition(position),
                 is_modified |-> FALSE,
                 width |-> width.n, height |-> height.n, depth |-> depth.n,
                 radius |-> radius.n])

ChamferedRectPrism(width, height, depth, chamfer, position) ==
    LET c == PosCheck(<<width, height, depth, chamfer>>)
    IN  IF c # "ok" THEN Raise(c)
        ELSE IF 2 * chamfer.n > Min2(width.n, depth.n) THEN Raise("ValueError")
        ELSE Ok([kind |-> "chamfered_rect_prism", position |-> BasePosition(position),
                 is_modified |-> FALSE,
                 width |-> width.n, height |-> height.n, depth |-> depth.n,
                 chamfer |-> chamfer.n])

NSidedPolygonPrism(diameter, height, sides, position) ==
    LET c == PosCheck(<<diameter, height>>)
    IN  IF c # "ok" THEN Raise(c)
        ELSE IF sides.t # "num" THEN Raise("TypeError")
        ELSE IF sides.n < 3 THEN Raise("ValueError")
        ELSE Ok([kind |-> "n_sided_polygon_prism", position |-> BasePosition(position),
                 is_modified |-> FALSE,
                 diameter |-> diameter.n, height |-> height.n, sides |-> sides.n,
                 radius |-> diameter.n \div 2])

Prism(base_shape, height, position) ==
    IF base_shape.t = "none" THEN Raise("ValueError")
    ELSE LET c == PosCheck(<<height>>)
         IN  IF c # "ok" THEN Raise(c)
             ELSE Ok([kind |-> "prism", position |-> BasePosition(position),
                      is_modified |-> FALSE,
                      base_shape |-> base_shape.s, height |-> height.n])

Cylinder(radius, height, position) ==
    LET c == PosCheck(<<radius, height>>)
    IN  IF c # "ok" THEN Raise(c)
        ELSE Ok([kind |-> "cylinder", position |-> BasePosition(position),
                 is_modified |-> FALSE,
                 radius |-> radius.n, height |-> height.n])

Trace(width, height, length, position) ==
    LET c == PosCheck(<<width, height, length>>)
    IN  IF c # "ok" THEN Raise(c)
        ELSE Ok([kind |-> "trace", position |-> BasePosition(position),
                 is_modified |-> FALSE,
                 width |-> width.n, height |-> height.n, length |-> length.n])


\* ------------------------------------------------------------------------
\* models/shape.py: constructors of the 2D variants
\* ------------------------------------------------------------------------
Circle(position, radius) ==
    LET c == PosCheck(<<radius>>)
    IN  IF c # "ok" THEN Raise(c)
        ELSE Ok([kind |-> "circle", position |-> BasePosition(position),
                 is_modified |-> FALSE, radius |-> radius.n])

Rectangle(position, width, height) ==
    LET c == PosCheck(<<width, height>>)
    IN  IF c # "ok" THEN Raise(c)
        ELSE Ok([kind |-> "rectangle", position |-> BasePosition(position),
                 is_modified |-> FALSE, width |-> width.n, height |-> height.n])

Square(position, side) ==
    LET c == PosCheck(<<side>>)
    IN  IF c # "ok" THEN Raise(c)
        ELSE Ok([kind |-> "square", position |-> BasePosition(position),
                 is_modified |-> FALSE, side |-> side.n])

OblongX(position, length, width) ==
    LET c == PosCheck(<<length, width>>)
    IN  IF c # "ok" THEN Raise(c)
        ELSE Ok([kind |-> "oblong_x", position |-> BasePosition(position),
                 is_modified |-> FALSE, length |-> length.n, width |-> width.n,
                 radius_x |-> length.n \div 2, radius_y |-> width.n \div 2])

OblongY(position, length, width) ==
    LET c == PosCheck(<<length, width>>)
    IN  IF c # "ok" THEN Raise(c)
        ELSE Ok([kind |-> "oblong_y", position |-> BasePosition(position),
                 is_modified |-> FALSE, length |-> length.n, width |-> width.n,
                 radius_x |-> width.n \div 2, radius_y |-> length.n \div 2])

RoundedRectangle(position, width, height, radius) ==
    LET c == PosCheck(<<width, height, radius>>)
    IN  IF c # "ok" THEN Raise(c)
        ELSE IF 2 * radius.n > Min2(width.n, height.n) THEN Raise("ValueError")
        ELSE Ok([kind |-> "rounded_rectangle", position |-> BasePosition(position),
                 is_modified |-> FALSE, width |-> width.n, height |-> height.n,
                 radius |-> radius.n])

ChamferedRectangle(position, width, height, chamfer) ==
    LET c == PosCheck(<<width, height, chamfer>>)
    IN  IF c # "ok" THEN Raise(c)
        ELSE IF 2 * chamfer.n > Min2(width.n, height.n) THEN Raise("ValueError")
        ELSE Ok([kind |-> "chamfered_rectangle", position |-> BasePosition(position),
                 is_modified |-> FALSE, width |-> width.n, height |-> height.n,
                 chamfer |-> chamfer.n])

NSidedPolygon(position, diameter, sides) ==
    LET c == PosCheck(<<diameter>>)
    IN  IF c # "ok" THEN Raise(c)
        ELSE IF sides.t # "num" THEN Raise("TypeError")
        ELSE IF sides.n < 3 THEN Raise("ValueError")
        ELSE Ok([kind |-> "n_sided_polygon", position |-> BasePosition(position),
                 is_modified |-> FALSE, diameter |-> diameter.n, sides |-> sides.n,
                 radius |-> diameter.n \div 2])

Kinds3D == {"cube", "cylinder", "hexagonal_prism", "oblique_cube", "prism",
            "rect_prism", "square_prism", "oblong_x_prism", "oblong_y_prism",
            "rounded_rect_prism", "chamfered_rect_prism",
            "n_sided_polygon_prism", "trace"}
Kinds2D == {"circle", "rectangle", "square", "oblong_x", "oblong_y",
            "rounded_rectangle", "chamfered_rectangle", "n_sided_polygon"}

\* ------------------------------------------------------------------------
\* models/shape.py: bounding boxes
\* ------------------------------------------------------------------------
BoundingBox3D(min_x, min_y, min_z, max_x, max_y, max_z) ==
    [min_x |-> min_x, min_y |-> min_y, min_z |-> min_z,
     max_x |-> max_x, max_y |-> max_y, max_z |-> max_z]

BoundingBox2D(min_x, min_y, max_x, max_y) ==
    [min_x |-> min_x, min_y |-> min_y, max_x |-> max_x, max_y |-> max_y]

\* BoundingBox3D.volume: width() * height() * depth()
BoxVolume(b) == (b.max_x - b.min_x) * (b.max_z - b.min_z) * (b.max_y - b.min_y)
\* BoundingBox2D.area: width() * height()
BoxArea(b) == (b.max_x - b.min_x) * (b.max_y - b.min_y)

\* a box centred on the position with the given half extents
CentredBox(p, hx, hy, hz) ==
    BoundingBox3D(p.x - hx, p.y - hy, p.z - hz, p.x + hx, p.y + hy, p.z + hz)
CentredBox2D(p, hx, hy) ==
    BoundingBox2D(p.x - hx, p.y - hy, p.x + hx, p.y + hy)

\* <Shape2D>.get_bounding_box_2d
get_bounding_box_2d(s) ==
    CASE s.kind = "circle" -> CentredBox2D(s.position, s.radius, s.radius)
      [] s.kind = "rectangle" ->
            CentredBox2D(s.position, s.width \div 2, s.height \div 2)
      [] s.kind = "square" -> CentredBox2D(s.position, s.side \div 2, s.side \div 2)
      [] s.kind \in {"oblong_x", "oblong_y"} ->
            CentredBox2D(s.position, s.radius_x, s.radius_y)
      [] s.kind \in {"rounded_rectangle", "chamfered_rectangle"} ->
            CentredBox2D(s.position, s.width \div 2, s.height \div 2)
      [] s.kind = "n_sided_polygon" -> CentredBox2D(s.position, s.radius, s.radius)

\* <Shape>.get_bounding_box.  Prism.get_bounding_box unpacks the base shape's
\* BoundingBox2D as a 4-tuple; a dataclass is not iterable, so it raises.
get_bounding_box(s) ==
    CASE s.kind = "cube" ->
            Ok(CentredBox(s.position, s.length \div 2, s.width \div 2, s.height \div 2))
      [] s.kind = "hexagonal_prism" ->
            Ok(CentredBox(s.position, s.radius, s.radius, s.height \div 2))
      [] s.kind = "oblique_cube" ->
            LET max_offset_x == (s.width \div 2) * AbsSinDeg(s.skew_y)
                max_offset_y == (s.length \div 2) * AbsSinDeg(s.skew_x)
            IN  Ok(CentredBox(s.position, (s.length \div 2) + max_offset_x,
                              (s.width \div 2) + max_offset_y, s.height \div 2))
      [] s.kind = "rect_prism" ->
            Ok(CentredBox(s.position, s.length \div 2, s.width \div 2, s.height \div 2))
      [] s.kind = "square_prism" ->
            Ok(CentredBox(s.position, s.side \div 2, s.side \div 2, s.height \div 2))
      [] s.kind \in {"oblong_x_prism", "oblong_y_prism"} ->
            Ok(CentredBox(s.position, s.radius_x, s.radius_y, s.height \div 2))
      [] s.kind \in {"rounded_rect_prism", "chamfered_rect_prism"} ->
            Ok(CentredBox(s.position, s.width \div 2, s.depth \div 2, s.height \div 2))
      [] s.kind = "n_sided_polygon_prism" ->
            Ok(CentredBox(s.position, s.radius, s.radius, s.height \div 2))
      [] s.kind = "prism" -> Raise("TypeError")
      [] s.kind = "cylinder" ->
            Ok(CentredBox(s.position, s.radius, s.radius, s.height \div 2))
      [] s.kind = "trace" ->
            Ok(CentredBox(s.position, s.width \div 2, s.length \div 2, s.height \div 2))


\* ------------------------------------------------------------------------
\* models/shape.py: area and volume, as exact rationals
\* ------------------------------------------------------------------------
\* NSidedPolygon.get_apothem / get_side_length (same code in the prism)
get_apothem(s) == RMul(RInt(s.radius), CosPiOver(s.sides))
get_side_length(s) == RMul(RInt(2 * s.radius), SinPiOver(s.sides))

\* RoundedRectangle.get_area and the base area of RoundedRectPrism.volume:
\*   corner_area = 4 * (r*r - pi*r*r/4);  rect_area - corner_area + pi*r*r
RoundedArea(rect_area, radius) ==
    LET rr == RInt(radius * radius)
        corner_area == RMul(RInt(4), RSub(rr, RDiv(RMul(Pi, rr), RInt(4))))
    IN  RAdd(RSub(RInt(rect_area), corner_area), RMul(Pi, rr))

\* ChamferedRectangle.get_area and the base area of ChamferedRectPrism.volume
ChamferedArea(rect_area, chamfer) ==
    RSub(RInt(rect_area), RMul(RInt(4), R(chamfer * chamfer, 2)))

\* (perimeter * apothem) / 2 with perimeter = sides * side_length
PolygonArea(s) ==
    RDiv(RMul(RMul(RInt(s.sides), get_side_length(s)), get_apothem(s)), RInt(2))

\* <Shape2D>.get_area
get_area(s) ==
    CASE s.kind = "circle" -> RMul(Pi, RInt(s.radius * s.radius))
      [] s.kind = "rectangle" -> RInt(s.width * s.height)
      [] s.kind = "square" -> RInt(s.side * s.side)
      [] s.kind \in {"oblong_x", "oblong_y"} -> RMul(Pi, RInt(s.radius_x * s.radius_y))
      [] s.kind = "rounded_rectangle" -> RoundedArea(s.width * s.height, s.radius)
      [] s.kind = "chamfered_rectangle" -> ChamferedArea(s.width * s.height, s.chamfer)
      [] s.kind = "n_sided_polygon" -> PolygonArea(s)

\* <Shape>.volume
volume(s) ==
    CASE s.kind \in {"cube", "oblique_cube", "rect_prism"} ->
            RInt(s.length * s.width * s.height)
      [] s.kind = "hexagonal_prism" ->
            RMul(RDiv(RMul(RMul(RInt(3), Sqrt3), RInt(s.radius * s.radius)), RInt(2)),
                 RInt(s.height))
      [] s.kind = "square_prism" -> RInt(s.side * s.side * s.height)
      [] s.kind \in {"oblong_x_prism", "oblong_y_prism"} ->
            RMul(Pi, RInt(s.radius_x * s.radius_y * s.height))
      [] s.kind = "rounded_rect_prism" ->
            RMul(RoundedArea(s.width * s.depth, s.radius), RInt(s.height))
      [] s.kind = "chamfered_rect_prism" ->
            RMul(ChamferedArea(s.width * s.depth, s.chamfer), RInt(s.height))
      [] s.kind = "n_sided_polygon_prism" -> RMul(PolygonArea(s), RInt(s.height))
      [] s.kind = "prism" -> RMul(get_area(s.base_shape), RInt(s.height))
      [] s.kind = "cylinder" -> RMul(Pi, RInt(s.radius * s.radius * s.height))
      [] s.kind = "trace" -> RInt(s.width * s.height * s.length)

\* ------------------------------------------------------------------------
\* models/shape.py: point containment
\* ------------------------------------------------------------------------
\* BoundingBox3D.contains_point
BoxContains(b, point) ==
    /\ b.min_x <= point.x /\ point.x <= b.max_x
    /\ b.min_y <= point.y /\ point.y <= b.max_y
    /\ b.min_z <= point.z /\ point.z <= b.max_z

\* (dx/radius_x)^2 + (dy/radius_y)^2 <= 1.0, with both radii positive
EllipseContains(dx, dy, radius_x, radius_y) ==
    dx * dx * radius_y * radius_y + dy * dy * radius_x * radius_x
        <= radius_x * radius_x * radius_y * radius_y

\* the rounded rectangle test of RoundedRectPrism / RoundedRectangle: the
\* corner centre is mirrored to the side opposite to the point, as written
RoundedContains(dx, dy, half_width, half_depth, radius) ==
    IF Abs(dx) > half_width \/ Abs(dy) > half_depth THEN FALSE
    ELSE IF Abs(dx) > half_width - radius /\ Abs(dy) > half_depth - radius
    THEN LET corner_x == IF dx > 0 THEN -(half_width - radius) ELSE half_width - radius
             corner_y == IF dy > 0 THEN -(half_depth - radius) ELSE half_depth - radius
         IN  (dx - corner_x) * (dx - corner_x) + (dy - corner_y) * (dy - corner_y)
                 <= radius * radius
    ELSE TRUE

\* the chamfered rectangle test of ChamferedRectPrism / ChamferedRectangle
ChamferedContains(dx, dy, half_width, half_depth, chamfer) ==
    IF Abs(dx) > half_width \/ Abs(dy) > half_depth THEN FALSE
    ELSE IF Abs(dx) > half_width - chamfer /\ Abs(dy) > half_depth - chamfer
    THEN LET corner_x == IF dx > 0 THEN -(half_width - chamfer) ELSE half_width - chamfer
             corner_y == IF dy > 0 THEN -(half_depth - chamfer) ELSE half_depth - chamfer
         IN  Abs(dx - corner_x) + Abs(dy - corner_y) <= chamfer
    ELSE TRUE

\* math.atan2(dy, dx) moved into [0, 2*pi), in degrees, for the axis and
\* diagonal directions (the offsets the model offers)
Atan2Deg(dy, dx) ==
    CASE dy = 0 /\ dx >= 0 -> 0
      [] dy > 0 /\ dx = dy -> 45
      [] dy > 0 /\ dx = 0 -> 90
      [] dy > 0 /\ dx = -dy -> 135
      [] dy = 0 /\ dx < 0 -> 180
      [] dy < 0 /\ dx = dy -> 225
      [] dy < 0 /\ dx = 0 -> 270
      [] dy < 0 /\ dx = -dy -> 315
      [] OTHER -> IF dy > 0 THEN 90 ELSE 270

\* math.cos and math.sin of an edge normal's angle (degrees), to three
\* decimals, for the normals of polygons with three to six sides
CosDeg(a) ==
    R(CASE a = 30 -> 866 [] a = 36 -> 809 [] a = 45 -> 707 [] a = 60 -> 500
        [] a = 90 -> 0 [] a = 108 -> -309 [] a = 135 -> -707 [] a = 150 -> -866
        [] a = 180 -> -1000 [] a = 210 -> -866 [] a = 225 -> -707
        [] a = 252 -> -309 [] a = 270 -> 0 [] a = 300 -> 500 [] a = 315 -> 707
        [] a = 324 -> 809 [] OTHER -> 866, FixDen)
SinDeg(a) ==
    R(CASE a = 30 -> 500 [] a = 36 -> 588 [] a = 45 -> 707 [] a = 60 -> 866
        [] a = 90 -> 1000 [] a = 108 -> 951 [] a = 135 -> 707 [] a = 150 -> 500
        [] a = 180 -> 0 [] a = 210 -> -500 [] a = 225 -> -707
        [] a = 252 -> -951 [] a = 270 -> -1000 [] a = 300 -> -866 [] a = 315 -> -707
        [] a = 324 -> -588 [] OTHER -> -500, FixDen)

\* the regular polygon test of NSidedPolygonPrism / NSidedPolygon: inside the
\* inscribed circle, or on the inner side of the edge whose angular sector
\* holds the point
PolygonContains(dx, dy, s) ==
    IF RLe(RInt(dx * dx + dy * dy), RMul(get_apothem(s), get_apothem(s))) THEN TRUE
    ELSE LET side_index == (Atan2Deg(dy, dx) * s.sides) \div 360
             edge_angle == ((2 * side_index + 1) * 180) \div s.sides
             edge_distance == RAdd(RMul(RInt(dx), CosDeg(edge_angle)),
                                   RMul(RInt(dy), SinDeg(edge_angle)))
         IN  RLe(edge_distance, get_apothem(s))

\* the hexagon test of HexagonalPrism, with slope = math.tan(math.pi / 6)
HexagonContains(dx, dy, radius) ==
    IF Abs(dx) > radius \/ Abs(dy) > radius THEN FALSE
    ELSE IF 2 * Abs(dx) <= radius THEN Abs(dy) <= radius
    ELSE RLe(RInt(Abs(dy)), RMul(R(577, FixDen), RInt(radius - Abs(dx))))

\* <Shape2D>.contains_point
contains_point_2d(s, point) ==
    LET dx == point.x - s.position.x
        dy == point.y - s.position.y
    IN  CASE s.kind = "circle" -> dx * dx + dy * dy <= s.radius * s.radius
          [] s.kind = "rectangle" ->
                Abs(dx) <= s.width \div 2 /\ Abs(dy) <= s.height \div 2
          [] s.kind = "square" -> Abs(dx) <= s.side \div 2 /\ Abs(dy) <= s.side \div 2
          [] s.kind \in {"oblong_x", "oblong_y"} ->
                EllipseContains(dx, dy, s.radius_x, s.radius_y)
          [] s.kind = "rounded_rectangle" ->
                RoundedContains(dx, dy, s.width \div 2, s.height \div 2, s.radius)
          [] s.kind = "chamfered_rectangle" ->
                ChamferedContains(dx, dy, s.width \div 2, s.height \div 2, s.chamfer)
          [] s.kind = "n_sided_polygon" -> PolygonContains(dx, dy, s)

\* the planar part of <Shape>.contains_point, once the height test passed.
\* Prism hands the offset from its own position to the base shape, which
\* measures it from the base shape's position.
PlanarContains(s, point, dx, dy) ==
    CASE s.kind = "hexagonal_prism" -> HexagonContains(dx, dy, s.radius)
      [] s.kind \in {"oblong_x_prism", "oblong_y_prism"} ->
            EllipseContains(dx, dy, s.radius_x, s.radius_y)
      [] s.kind = "rounded_rect_prism" ->
            RoundedContains(dx, dy, s.width \div 2, s.depth \div 2, s.radius)
      [] s.kind = "chamfered_rect_prism" ->
            ChamferedContains(dx, dy, s.width \div 2, s.depth \div 2, s.chamfer)
      [] s.kind = "n_sided_polygon_prism" -> PolygonContains(dx, dy, s)
      [] s.kind = "prism" -> contains_point_2d(s.base_shape, Vec(dx, dy, 0))
      [] s.kind = "cylinder" -> dx * dx + dy * dy <= s.radius * s.radius

\* <Shape>.contains_point
contains_point(s, point) ==
    CASE s.kind \in {"cube", "rect_prism"} ->
            /\ Abs(point.x - s.position.x) <= s.length \div 2
            /\ Abs(point.y - s.position.y) <= s.width \div 2
            /\ Abs(point.z - s.position.z) <= s.height \div 2
      [] s.kind = "square_prism" ->
            /\ Abs(point.x - s.position.x) <= s.side \div 2
            /\ Abs(point.y - s.position.y) <= s.side \div 2
            /\ Abs(point.z - s.position.z) <= s.height \div 2
      [] s.kind = "trace" ->
            /\ Abs(point.x - s.position.x) <= s.width \div 2
            /\ Abs(point.y - s.position.y) <= s.length \div 2
            /\ Abs(point.z - s.position.z) <= s.height \div 2
      [] s.kind = "oblique_cube" -> BoxContains(get_bounding_box(s).v, point)
      [] OTHER ->
            IF Abs(point.z - s.position.z) > s.height \div 2 THEN FALSE
            ELSE PlanarContains(s, point, point.x - s.position.x,
                                point.y - s.position.y)


\* ------------------------------------------------------------------------
\* Shape texts.  A text is the token structure of `name(groups, args)tail`:
\* the characters before the first "(", the bracketed coordinate groups, the
\* comma separated arguments after them, and whether characters follow the
\* closing ")".  A token is a literal: form "int" (`10`), "float" (`10.0`)
\* or "word" (not a number); val is the number it denotes.
\* ------------------------------------------------------------------------
IntTok(v) == [form |-> "int", val |-> v]
FloatTok(v) == [form |-> "float", val |-> v]
WordTok == [form |-> "word", val |-> 0]

Text(name, groups, args) ==
    [name |-> name, groups |-> groups, args |-> args, tail |-> FALSE]

\* Python float(token): accepts both numeric spellings, else ValueError
ToFloat(tok) == IF tok.form \in {"int", "float"} THEN Ok(tok.val) ELSE Raise("ValueError")
\* Python int(token): accepts only the integer spelling
ToInt(tok) == IF tok.form = "int" THEN Ok(tok.val) ELSE Raise("ValueError")

\* f"{x}" of a Python float prints a float literal; of an int, an int literal
FmtFloat(v) == FloatTok(v)
FmtInt(v) == IntTok(v)

\* [x,y,z] and [x,y] as printed by the to_string methods
FmtPos3(p) == <<FmtFloat(p.x), FmtFloat(p.y), FmtFloat(p.z)>>
FmtPos2(p) == <<FmtFloat(p.x), FmtFloat(p.y)>>

\* <Shape>.to_string / <Shape2D>.to_string
RECURSIVE to_string(_)
to_string(s) ==
    CASE s.kind = "cube" ->
            Text("cube", <<FmtPos3(s.position)>>,
                 <<FmtFloat(s.length), FmtFloat(s.width), FmtFloat(s.height)>>)
      [] s.kind = "hexagonal_prism" ->
            Text("hexagonal_prism", <<FmtPos3(s.position)>>,
                 <<FmtFloat(s.diameter), FmtFloat(s.height)>>)
      [] s.kind = "oblique_cube" ->
            Text("oblique_cube", <<FmtPos3(s.position)>>,
                 <<FmtFloat(s.length), FmtFloat(s.width), FmtFloat(s.height),
                   FmtFloat(s.skew_x), FmtFloat(s.skew_y)>>)
      [] s.kind = "rect_prism" ->
            Text("rect_prism", <<FmtPos3(s.position)>>,
                 <<FmtFloat(s.length), FmtFloat(s.width), FmtFloat(s.height)>>)
      [] s.kind = "square_prism" ->
            Text("square_prism", <<FmtPos3(s.position)>>,
                 <<FmtFloat(s.side), FmtFloat(s.height)>>)
      [] s.kind = "oblong_x_prism" ->
            Text("oblong_x_prism", <<FmtPos3(s.position)>>,
                 <<FmtFloat(s.length), FmtFloat(s.width), FmtFloat(s.height)>>)
      [] s.kind = "oblong_y_prism" ->
            Text("OblongYPrism", <<>>,
                 <<FmtFloat(s.length), FmtFloat(s.width), FmtFloat(s.height)>>)
      [] s.kind = "rounded_rect_prism" ->
            Text("RoundedRectPrism", <<>>,
                 <<FmtFloat(s.width), FmtFloat(s.height), FmtFloat(s.depth),
                   FmtFloat(s.radius)>>)
      [] s.kind = "chamfered_rect_prism" ->
            Text("ChamferedRectPrism", <<>>,
                 <<FmtFloat(s.width), FmtFloat(s.height), FmtFloat(s.depth),
                   FmtFloat(s.chamfer)>>)
      [] s.kind = "n_sided_polygon_prism" ->
            Text("NSidedPolygonPrism", <<>>,
                 <<FmtFloat(s.diameter), FmtFloat(s.height), FmtInt(s.sides)>>)
      [] s.kind = "prism" ->
            [name |-> "Prism", groups |-> <<>>, args |-> <<FmtFloat(s.height)>>,
             tail |-> FALSE, base |-> to_string(s.base_shape)]
      [] s.kind = "cylinder" ->
            Text("Cylinder", <<>>, <<FmtFloat(s.radius), FmtFloat(s.height)>>)
      [] s.kind = "trace" ->
            Text("Trace", <<>>,
                 <<FmtFloat(s.width), FmtFloat(s.height), FmtFloat(s.length)>>)
      [] s.kind = "circle" ->
            Text("circle", <<FmtPos2(s.position)>>, <<FmtFloat(s.radius)>>)
      [] s.kind = "rectangle" ->
            Text("rectangle", <<FmtPos2(s.position)>>,
                 <<FmtFloat(s.width), FmtFloat(s.height)>>)
      [] s.kind = "square" ->
            Text("square", <<FmtPos2(s.position)>>, <<FmtFloat(s.side)>>)
      [] s.kind = "oblong_x" ->
            Text("oblong_x", <<FmtPos2(s.position)>>,
                 <<FmtFloat(s.length), FmtFloat(s.width)>>)
      [] s.kind = "oblong_y" ->
            Text("oblong_y", <<FmtPos2(s.position)>>,
                 <<FmtFloat(s.length), FmtFloat(s.width)>>)
      [] s.kind = "rounded_rectangle" ->
            Text("rounded_rectangle", <<FmtPos2(s.position)>>,
                 <<FmtFloat(s.width), FmtFloat(s.height), FmtFloat(s.radius)>>)
      [] s.kind = "chamfered_rectangle" ->
            Text("chamfered_rectangle", <<FmtPos2(s.position)>>,
                 <<FmtFloat(s.width), FmtFloat(s.height), FmtFloat(s.chamfer)>>)
      [] s.kind = "n_sided_polygon" ->
            Text("n_sided_polygon", <<FmtPos2(s.position)>>,
                 <<FmtFloat(s.diameter), FmtInt(s.sides)>>)


\* ------------------------------------------------------------------------
\* parser/shape_parser.py
\* ------------------------------------------------------------------------
\* re.match of a rule `name\(\[g,..\],a,..\)`: the name, the number of
\* bracket groups with their sizes, and the number of arguments must fit.
\* re.match does not anchor the end, so trailing characters are ignored.
Matches(t, name, groupSizes, nargs) ==
    /\ t.name = name
    /\ "base" \notin DOMAIN t
    /\ Len(t.groups) = Len(groupSizes)
    /\ \A i \in 1..Len(groupSizes) : Len(t.groups[i]) = groupSizes[i]
    /\ Len(t.args) = nargs

AllFloat(toks) == \A i \in 1..Len(toks) : ToFloat(toks[i]).ok

\* Vector3D(x, y, z) from three matched groups
GroupVec3(g) == Vec(g[1].val, g[2].val, g[3].val)
\* Vector3D(x, y, 0) from two matched groups
GroupVec2(g) == Vec(g[1].val, g[2].val, 0)

\* the cube rule's replacement of a non-positive dimension by 0.001
CubeDim(v) == IF v <= 0 THEN CubeMinDim ELSE v

\* a single comma-free piece of text read as a shape string
TokenAsText(tok) == Text("", <<>>, <<tok>>)

\* ShapeParser._parse_2d_shape: Ok(shape), Ok(NoneVal) when no rule matches,
\* or the exception raised by float(), int() or a constructor
parse_2d_shape(t) ==
    IF Matches(t, "circle", <<2>>, 1) THEN
        IF ~AllFloat(t.groups[1] \o t.args) THEN Raise("ValueError")
        ELSE Circle(GroupVec2(t.groups[1]), Num(t.args[1].val))
    ELSE IF Matches(t, "rectangle", <<2>>, 2) THEN
        IF ~AllFloat(t.groups[1] \o t.args) THEN Raise("ValueError")
        ELSE Rectangle(GroupVec2(t.groups[1]), Num(t.args[1].val), Num(t.args[2].val))
    ELSE IF Matches(t, "square", <<2>>, 1) THEN
        IF ~AllFloat(t.groups[1] \o t.args) THEN Raise("ValueError")
        ELSE Square(GroupVec2(t.groups[1]), Num(t.args[1].val))
    ELSE IF Matches(t, "oblong_x", <<2>>, 2) THEN
        IF ~AllFloat(t.groups[1] \o t.args) THEN Raise("ValueError")
        ELSE OblongX(GroupVec2(t.groups[1]), Num(t.args[1].val), Num(t.args[2].val))
    ELSE IF Matches(t, "oblong_y", <<2>>, 2) THEN
        IF ~AllFloat(t.groups[1] \o t.args) THEN Raise("ValueError")
        ELSE OblongY(GroupVec2(t.groups[1]), Num(t.args[1].val), Num(t.args[2].val))
    ELSE IF Matches(t, "rounded_rectangle", <<2>>, 3) THEN
        IF ~AllFloat(t.groups[1] \o t.args) THEN Raise("ValueError")
        ELSE RoundedRectangle(GroupVec2(t.groups[1]), Num(t.args[1].val),
                              Num(t.args[2].val), Num(t.args[3].val))
    ELSE IF Matches(t, "chamfered_rectangle", <<2>>, 3) THEN
        IF ~AllFloat(t.groups[1] \o t.args) THEN Raise("ValueError")
        ELSE ChamferedRectangle(GroupVec2(t.groups[1]), Num(t.args[1].val),
                                Num(t.args[2].val), Num(t.args[3].val))
    ELSE IF Matches(t, "n_sided_polygon", <<2>>, 2) THEN
        IF ~AllFloat(t.groups[1] \o <<t.args[1]>>) \/ ~ToInt(t.args[2]).ok
        THEN Raise("ValueError")
        ELSE NSidedPolygon(GroupVec2(t.groups[1]), Num(t.args[1].val), Num(t.args[2].val))
    ELSE Ok(NoneVal)

\* the prism rule once its base text has been parsed: the base must be a 2D
\* shape
PrismOver(base_shape, height) ==
    IF ~base_shape.ok THEN base_shape
    ELSE IF base_shape.v.kind \in Kinds2D
    THEN Prism(Obj(base_shape.v), Num(height), NoneVal)
    ELSE RaiseMsg("ShapeParsingError", "Prism base shape must be a 2D shape")

RECURSIVE parse_shape_string(_)
RECURSIVE parse_3d_shape(_)

\* ShapeParser._parse_3d_shape.  Each rule passes its values to the
\* constructor positionally, in the order written in the parser.
parse_3d_shape(t) ==
    IF Matches(t, "cube", <<3>>, 3) THEN
        IF ~AllFloat(t.groups[1] \o t.args) THEN Raise("ValueError")
        ELSE Cube(GroupVec3(t.groups[1]), Num(CubeDim(t.args[1].val)),
                  Num(CubeDim(t.args[2].val)), Num(CubeDim(t.args[3].val)))
    ELSE IF Matches(t, "cylinder", <<3>>, 2) THEN
        IF ~AllFloat(t.groups[1] \o t.args) THEN Raise("ValueError")
        ELSE Cylinder(GroupVec3(t.groups[1]), Num(t.args[1].val), Num(t.args[2].val))
    ELSE IF Matches(t, "hexagonal_prism", <<3>>, 2) THEN
        IF ~AllFloat(t.groups[1] \o t.args) THEN Raise("ValueError")
        ELSE HexagonalPrism(GroupVec3(t.groups[1]), Num(t.args[1].val), Num(t.args[2].val))
    ELSE IF Matches(t, "oblique_cube", <<3, 3>>, 2) THEN
        IF ~AllFloat(t.groups[1] \o t.groups[2] \o t.args) THEN Raise("ValueError")
        ELSE ObliqueCube(GroupVec3(t.groups[1]), GroupVec3(t.groups[2]),
                         Num(t.args[1].val), Num(t.args[2].val), Num(0), Num(0))
    ELSE IF Matches(t, "rect_prism", <<3>>, 3) THEN
        IF ~AllFloat(t.groups[1] \o t.args) THEN Raise("ValueError")
        ELSE RectPrism(Num(t.args[1].val), Num(t.args[2].val), Num(t.args[3].val),
                       GroupVec3(t.groups[1]))
    ELSE IF Matches(t, "square_prism", <<3>>, 2) THEN
        IF ~AllFloat(t.groups[1] \o t.args) THEN Raise("ValueError")
        ELSE SquarePrism(Num(t.args[1].val), Num(t.args[2].val), GroupVec3(t.groups[1]))
    ELSE IF Matches(t, "oblong_x_prism", <<3>>, 3) THEN
        IF ~AllFloat(t.groups[1] \o t.args) THEN Raise("ValueError")
        ELSE OblongXPrism(Num(t.args[1].val), Num(t.args[2].val), Num(t.args[3].val),
                          GroupVec3(t.groups[1]))
    ELSE IF Matches(t, "oblong_y_prism", <<3>>, 3) THEN
        IF ~AllFloat(t.groups[1] \o t.args) THEN Raise("ValueError")
        ELSE OblongYPrism(Num(t.args[1].val), Num(t.args[2].val), Num(t.args[3].val),
                          GroupVec3(t.groups[1]))
    ELSE IF Matches(t, "rounded_rect_prism", <<3>>, 4) THEN
        IF ~AllFloat(t.groups[1] \o t.args) THEN Raise("ValueError")
        ELSE RoundedRectPrism(Num(t.args[1].val), Num(t.args[2].val), Num(t.args[3].val),
                              Num(t.args[4].val), GroupVec3(t.groups[1]))
    ELSE IF Matches(t, "chamfered_rect_prism", <<3>>, 4) THEN
        IF ~AllFloat(t.groups[1] \o t.args) THEN Raise("ValueError")
        ELSE ChamferedRectPrism(Num(t.args[1].val), Num(t.args[2].val), Num(t.args[3].val),
                                Num(t.args[4].val), GroupVec3(t.groups[1]))
    ELSE IF Matches(t, "n_sided_polygon_prism", <<3>>, 3) THEN
        IF ~AllFloat(t.groups[1] \o <<t.args[1], t.args[2]>>) \/ ~ToInt(t.args[3]).ok
        THEN Raise("ValueError")
        ELSE NSidedPolygonPrism(Num(t.args[1].val), Num(t.args[2].val),
                                Num(t.args[3].val), GroupVec3(t.groups[1]))
    ELSE IF Matches(t, "trace", <<3>>, 3) THEN
        IF ~AllFloat(t.groups[1] \o t.args) THEN Raise("ValueError")
        ELSE Trace(Num(t.args[1].val), Num(t.args[2].val), Num(t.args[3].val),
                   GroupVec3(t.groups[1]))
    ELSE IF Matches(t, "prism", <<>>, 2) THEN
        IF ~ToFloat(t.args[2]).ok THEN Raise("ValueError")
        ELSE PrismOver(parse_shape_string(TokenAsText(t.args[1])), t.args[2].val)
    ELSE Ok(NoneVal)

\* the empty or whitespace-only string
IsBlank(t) ==
    t.name = "" /\ t.groups = <<>> /\ t.args = <<>> /\ "base" \notin DOMAIN t

\* parse_shape_string once the 2D rules have been tried
After2D(r2) ==
    IF ~r2.ok THEN RaiseMsg("ShapeParsingError", r2.err)
    ELSE IF r2.v # NoneVal THEN r2
    ELSE RaiseMsg("ShapeParsingError", "Unable to parse shape string")

\* parse_shape_string without the conversion of foreign exceptions: what the
\* error contract must be able to tell apart
After3D_reraise(t, r3) ==
    IF ~r3.ok THEN r3
    ELSE IF r3.v # NoneVal THEN r3
    ELSE After2D(parse_2d_shape(t))

\* parse_shape_string once the 3D rules have been tried
After3D(t, r3) ==
    IF ~r3.ok THEN
        IF r3.err = "ShapeParsingError" THEN r3
        ELSE RaiseMsg("ShapeParsingError", r3.err)
    ELSE IF r3.v # NoneVal THEN r3
    ELSE After2D(parse_2d_shape(t))

\* ShapeParser.parse_shape_string: the 3D rules, then the 2D rules; every
\* exception other than ShapeParsingError is re-raised as ShapeParsingError
parse_shape_string(t) ==
    IF IsBlank(t) THEN RaiseMsg("ShapeParsingError", "Shape string cannot be empty")
    ELSE After3D(t, parse_3d_shape(t))


\* ------------------------------------------------------------------------
\* Direct instantiation (ShapeFactory.create_3d_shape / create_2d_shape):
\* the keyword arguments reach the constructor's parameters by name
\* ------------------------------------------------------------------------
create_3d_shape(shape_type, position, a) ==
    CASE shape_type = "cube" -> Cube(position, Num(a[1]), Num(a[2]), Num(a[3]))
      [] shape_type = "cylinder" -> Cylinder(Num(a[1]), Num(a[2]), position)
      [] shape_type = "hexagonal_prism" -> HexagonalPrism(position, Num(a[1]), Num(a[2]))
      [] shape_type = "oblique_cube" ->
            ObliqueCube(position, Num(a[1]), Num(a[2]), Num(a[3]), Num(a[4]), Num(a[5]))
      [] shape_type = "rect_prism" -> RectPrism(position, Num(a[1]), Num(a[2]), Num(a[3]))
      [] shape_type = "square_prism" -> SquarePrism(position, Num(a[1]), Num(a[2]))
      [] shape_type = "oblong_x_prism" ->
            OblongXPrism(position, Num(a[1]), Num(a[2]), Num(a[3]))
      [] shape_type = "oblong_y_prism" ->
            OblongYPrism(Num(a[1]), Num(a[2]), Num(a[3]), position)
      [] shape_type = "rounded_rect_prism" ->
            RoundedRectPrism(Num(a[1]), Num(a[2]), Num(a[3]), Num(a[4]), position)
      [] shape_type = "chamfered_rect_prism" ->
            ChamferedRectPrism(Num(a[1]), Num(a[2]), Num(a[3]), Num(a[4]), position)
      [] shape_type = "n_sided_polygon_prism" ->
            NSidedPolygonPrism(Num(a[1]), Num(a[2]), Num(a[3]), position)
      [] shape_type = "trace" -> Trace(Num(a[1]), Num(a[2]), Num(a[3]), position)
      [] OTHER -> Raise("ValueError")

create_2d_shape(shape_type, position, a) ==
    CASE shape_type = "circle" -> Circle(position, Num(a[1]))
      [] shape_type = "rectangle" -> Rectangle(position, Num(a[1]), Num(a[2]))
      [] shape_type = "square" -> Square(position, Num(a[1]))
      [] shape_type = "oblong_x" -> OblongX(position, Num(a[1]), Num(a[2]))
      [] shape_type = "oblong_y" -> OblongY(position, Num(a[1]), Num(a[2]))
      [] shape_type = "rounded_rectangle" ->
            RoundedRectangle(position, Num(a[1]), Num(a[2]), Num(a[3]))
      [] shape_type = "chamfered_rectangle" ->
            ChamferedRectangle(position, Num(a[1]), Num(a[2]), Num(a[3]))
      [] shape_type = "n_sided_polygon" -> NSidedPolygon(position, Num(a[1]), Num(a[2]))
      [] OTHER -> Raise("ValueError")

\* ------------------------------------------------------------------------
\* Inputs of the shape kernel specification
\* ------------------------------------------------------------------------
\* skew angles offered to ObliqueCube, in degrees
SkewVals == {0, 90}

\* the dimension parameters of each variant, in declared order
DimNames(kind) ==
    CASE kind \in {"cube", "rect_prism", "oblong_x_prism", "oblong_y_prism"} ->
            <<"length", "width", "height">>
      [] kind = "oblique_cube" -> <<"length", "width", "height", "skew_x", "skew_y">>
      [] kind = "cylinder" -> <<"radius", "height">>
      [] kind = "hexagonal_prism" -> <<"diameter", "height">>
      [] kind = "square_prism" -> <<"side", "height">>
      [] kind = "rounded_rect_prism" -> <<"width", "height", "depth", "radius">>
      [] kind = "chamfered_rect_prism" -> <<"width", "height", "depth", "chamfer">>
      [] kind = "n_sided_polygon_prism" -> <<"diameter", "height", "sides">>
      [] kind = "trace" -> <<"width", "height", "length">>
      [] kind = "prism" -> <<"height">>
      [] kind = "circle" -> <<"radius">>
      [] kind = "rectangle" -> <<"width", "height">>
      [] kind = "square" -> <<"side">>
      [] kind \in {"oblong_x", "oblong_y"} -> <<"length", "width">>
      [] kind = "rounded_rectangle" -> <<"width", "height", "radius">>
      [] kind = "chamfered_rectangle" -> <<"width", "height", "chamfer">>
      [] kind = "n_sided_polygon" -> <<"diameter", "sides">>

\* the values offered for one named parameter
ParamVals(name) ==
    CASE name = "sides" -> SideVals
      [] name \in {"skew_x", "skew_y"} -> SkewVals
      [] OTHER -> DimVals

\* all argument lists offered for the given parameter names
ArgLists(names) ==
    {a \in [1..Len(names) -> DimVals \cup SideVals \cup SkewVals] :
        \A i \in 1..Len(names) : a[i] \in ParamVals(names[i])}

Positions3 == {Vec(x, y, z) : x \in PosVals, y \in PosVals, z \in {0, 2 * (MaxPosSteps + 1)}}
Positions2 == {Vec(x, y, 0) : x \in PosVals, y \in PosVals}

\* the parameters after the position group(s) in each grammar rule
GrammarNames(kind) ==
    IF kind = "oblique_cube" THEN <<"width", "thickness">>
    ELSE IF kind = "hexagonal_prism" THEN <<"radius", "height">>
    ELSE DimNames(kind)

\* an argument is invalid when a length is <= 0 or a side count is < 3
InvalidArg(name, v) ==
    CASE name = "sides" -> v < 3
      [] name \in {"skew_x", "skew_y"} -> FALSE
      [] OTHER -> v <= 0

HasInvalidArg(names, a) == \E i \in 1..Len(names) : InvalidArg(names[i], a[i])

\* radius / chamfer no larger than half the smaller planar dimension
CornerFits(kind, a) ==
    CASE kind \in {"rounded_rect_prism", "chamfered_rect_prism"} ->
            2 * a[4] <= Min2(a[1], a[3])
      [] kind \in {"rounded_rectangle", "chamfered_rectangle"} ->
            2 * a[3] <= Min2(a[1], a[2])
      [] OTHER -> TRUE


\* the 2D shapes offered as base of a directly constructed Prism, each at
\* every planar position offered
BaseShapes ==
    UNION {{create_2d_shape(kp[1], kp[2], a).v :
               a \in {b \in ArgLists(DimNames(kp[1])) : create_2d_shape(kp[1], kp[2], b).ok}} :
           kp \in Kinds2D \X Positions2}

\* the tokens of a list of numbers, all in one spelling
Toks(form, a) == [i \in 1..Len(a) |-> [form |-> form, val |-> a[i]]]
VecToks(form, p, n) ==
    IF n = 3 THEN Toks(form, <<p.x, p.y, p.z>>) ELSE Toks(form, <<p.x, p.y>>)

\* the text `kind([pos],a1,..)` of a grammar rule
GrammarText(kind, p, a, form) ==
    IF kind = "oblique_cube"
    THEN Text(kind, <<VecToks(form, p, 3), VecToks(form, Vec(2, 2, 2), 3)>>, Toks(form, a))
    ELSE Text(kind, <<VecToks(form, p, IF kind \in Kinds2D THEN 2 ELSE 3)>>, Toks(form, a))

NoResult == RaiseMsg("none", "")

\* ------------------------------------------------------------------------
\* Shape kernel specification: one shape object is requested, then printed
\* and re-parsed, or measured
\* ------------------------------------------------------------------------
\* direct instantiation of a 3D variant other than Prism
Construct3D ==
    /\ req.op = "idle"
    /\ \E kind \in Kinds3D \ {"prism"}, p \in Positions3 :
         \E a \in ArgLists(DimNames(kind)) :
            /\ req' = [op |-> "construct", kind |-> kind, position |-> p, args |-> a]
            /\ res' = create_3d_shape(kind, p, a)
    /\ UNCHANGED <<temperature_map, query, materials, original_data, sections, registry, thermal_info_templates, runtime_sections>>

\* direct instantiation of a Prism over a 2D base shape
ConstructPrism ==
    /\ req.op = "idle"
    /\ \E b \in BaseShapes, p \in Positions3, h \in DimVals :
            /\ req' = [op |-> "construct", kind |-> "prism", position |-> p,
                       args |-> <<h>>]
            /\ res' = Prism(Obj(b), Num(h), p)
    /\ UNCHANGED <<temperature_map, query, materials, original_data, sections, registry, thermal_info_templates, runtime_sections>>

\* direct instantiation of a 2D variant
Construct2D ==
    /\ req.op = "idle"
    /\ \E kind \in Kinds2D, p \in Positions2 :
         \E a \in ArgLists(DimNames(kind)) :
            /\ req' = [op |-> "construct", kind |-> kind, position |-> p, args |-> a]
            /\ res' = create_2d_shape(kind, p, a)
    /\ UNCHANGED <<temperature_map, query, materials, original_data, sections, registry, thermal_info_templates, runtime_sections>>

\* ShapeParser.parse_shape_string on a text written in a grammar rule
Parse ==
    /\ req.op = "idle"
    /\ \E kind \in (Kinds3D \ {"prism"}) \cup Kinds2D, form \in {"int", "float"} :
         \E p \in (IF kind \in Kinds2D THEN Positions2 ELSE Positions3),
            a \in ArgLists(GrammarNames(kind)) :
            /\ req' = [op |-> "parse", kind |-> kind, position |-> p, args |-> a,
                       form |-> form, text |-> GrammarText(kind, p, a, form)]
            /\ res' = parse_shape_string(GrammarText(kind, p, a, form))
    /\ UNCHANGED <<temperature_map, query, materials, original_data, sections, registry, thermal_info_templates, runtime_sections>>

\* parse_shape_string(shape.to_string()) on the shape just obtained
RoundTrip ==
    /\ req.op \in {"construct", "parse"}
    /\ res.ok
    /\ req' = [op |-> "reparse", shape |-> res.v, text |-> to_string(res.v)]
    /\ res' = parse_shape_string(to_string(res.v))
    /\ UNCHANGED <<temperature_map, query, materials, original_data, sections, registry, thermal_info_templates, runtime_sections>>

\* bounding box and volume (area for a 2D shape) of the shape just obtained
Measure ==
    /\ req.op \in {"construct", "parse"}
    /\ res.ok
    /\ req' = [op |-> "measure", shape |-> res.v]
    /\ res' = IF res.v.kind \in Kinds2D
              THEN Ok([box |-> BoxArea(get_bounding_box_2d(res.v)),
                       size |-> get_area(res.v)])
              ELSE LET b == get_bounding_box(res.v)
                   IN  IF ~b.ok THEN b
                       ELSE Ok([box |-> BoxVolume(b.v), size |-> volume(res.v)])
    /\ UNCHANGED <<temperature_map, query, materials, original_data, sections, registry, thermal_info_templates, runtime_sections>>

\* shape.contains_point(shape.position) on the shape just obtained
Contains ==
    /\ req.op \in {"construct", "parse"}
    /\ res.ok
    /\ req' = [op |-> "contains", shape |-> res.v, point |-> res.v.position]
    /\ res' = Ok(IF res.v.kind \in Kinds2D
                 THEN contains_point_2d(res.v, res.v.position)
                 ELSE contains_point(res.v, res.v.position))
    /\ UNCHANGED <<temperature_map, query, materials, original_data, sections, registry, thermal_info_templates, runtime_sections>>

\* offsets of the points tested from the centre of the shape
CornerOffsets == {-2, 0, 2}

\* the variants with rounded or chamfered corners
CornerKinds ==
    {"rounded_rect_prism", "chamfered_rect_prism", "rounded_rectangle", "chamfered_rectangle"}

\* shape.contains_point(point) on a rounded or chamfered shape just
\* constructed, the point at an offset from the centre, at its height
ContainsOffset ==
    /\ req.op = "construct"
    /\ res.ok
    /\ res.v.kind \in CornerKinds
    /\ \E ox \in CornerOffsets, oy \in CornerOffsets :
          LET point == Vec(res.v.position.x + ox, res.v.position.y + oy, res.v.position.z)
          IN  /\ req' = [op |-> "contains_offset", shape |-> res.v, point |-> point]
              /\ res' = Ok(IF res.v.kind \in Kinds2D
                           THEN contains_point_2d(res.v, point)
                           ELSE contains_point(res.v, point))
    /\ UNCHANGED <<temperature_map, query, materials, original_data, sections, registry, thermal_info_templates, runtime_sections>>

\* the text `prism(<base>,h)`.  A base text that holds a comma is kept in the
\* field base: the prism rule's groups are comma-free ([^,]+), so such a
\* text fits neither the prism rule nor any other rule.
PrismText(base, htok) ==
    [name |-> "prism", groups |-> <<>>, args |-> <<htok>>, tail |-> FALSE, base |-> base]

\* well-formed grammar texts offered as the embedded base of a prism text
PrismBases ==
    {[kind |-> k, text |-> GrammarText(k, p, a, "int")] :
        <<k, p, a>> \in
            {kpa \in UNION {{<<k2, p2, a2>> :
                               p2 \in (IF k2 \in Kinds2D THEN Positions2 ELSE Positions3),
                               a2 \in ArgLists(GrammarNames(k2))} :
                            k2 \in Kinds2D \cup {"cube"}} :
                ~HasInvalidArg(GrammarNames(kpa[1]), kpa[3]) /\ CornerFits(kpa[1], kpa[3])}}

\* ShapeParser.parse_shape_string on a prism text over a well-formed base
\* text, or over a comma-free word
ParsePrism ==
    /\ req.op = "idle"
    /\ \E h \in DimVals, form \in {"int", "float"} :
         \/ \E b \in PrismBases :
              /\ req' = [op |-> "parse_prism", base_kind |-> b.kind, base |-> b.text,
                         height |-> h, text |-> PrismText(b.text, [form |-> form, val |-> h])]
              /\ res' = parse_shape_string(PrismText(b.text, [form |-> form, val |-> h]))
         \/ /\ req' = [op |-> "parse_prism", base_kind |-> "word",
                       base |-> TokenAsText(WordTok), height |-> h,
                       text |-> Text("prism", <<>>, <<WordTok, [form |-> form, val |-> h]>>)]
            /\ res' = parse_shape_string(
                          Text("prism", <<>>, <<WordTok, [form |-> form, val |-> h]>>))
    /\ UNCHANGED <<temperature_map, query, materials, original_data, sections, registry, thermal_info_templates, runtime_sections>>

\* the ways a text is made to fit no rule or to hold a non-number
Defects == {"blank", "unknown", "short", "long", "word_arg", "word_pos"}

\* a grammar text with one defect
Malformed(kind, p, a, defect) ==
    LET t == GrammarText(kind, p, a, "int")
    IN  CASE defect = "blank" -> Text("", <<>>, <<>>)
          [] defect = "unknown" -> [t EXCEPT !.name = "blob"]
          [] defect = "short" -> [t EXCEPT !.args = SubSeq(@, 1, Len(@) - 1)]
          [] defect = "long" -> [t EXCEPT !.args = Append(@, IntTok(2))]
          [] defect = "word_arg" -> [t EXCEPT !.args[1] = WordTok]
          [] defect = "word_pos" -> [t EXCEPT !.groups[1][1] = WordTok]

\* ShapeParser.parse_shape_string on an empty text, a text of no rule, a
\* text of wrong arity, or a text with a word in a numeric slot
ParseMalformed ==
    /\ req.op = "idle"
    /\ \E kind \in (Kinds3D \ {"prism"}) \cup Kinds2D, defect \in Defects :
         \E p \in (IF kind \in Kinds2D THEN Positions2 ELSE Positions3),
            a \in ArgLists(GrammarNames(kind)) :
            /\ req' = [op |-> "parse_malformed", kind |-> kind, defect |-> defect,
                       text |-> Malformed(kind, p, a, defect)]
            /\ res' = parse_shape_string(Malformed(kind, p, a, defect))
    /\ UNCHANGED <<temperature_map, query, materials, original_data, sections, registry, thermal_info_templates, runtime_sections>>

\* the characters after a rule's closing ")": "plain" holds no ")" (`xyz`),
\* "paren" ends with another ")" before any comma (`xyz)`)
Tails == {"plain", "paren"}

\* a grammar text followed by a tail, as re.match groups it: the last group
\* `([^,]+)` is greedy and the `\)` after it is the last ")" before the next
\* comma, so a tail with a ")" is swallowed into the last argument, and any
\* other tail is left outside the match
WithTail(t, tail) ==
    IF tail = "paren" THEN [t EXCEPT !.args[Len(t.args)] = WordTok, !.tail = TRUE]
    ELSE [t EXCEPT !.tail = TRUE]

\* ShapeParser.parse_shape_string on a well-formed text of a 3D or 2D rule
\* followed by extra characters
ParseTrailing ==
    /\ req.op = "idle"
    /\ \E kind \in (Kinds3D \ {"prism"}) \cup Kinds2D, tail \in Tails :
         \E p \in (IF kind \in Kinds2D THEN Positions2 ELSE Positions3),
            a \in ArgLists(GrammarNames(kind)) :
            /\ req' = [op |-> "parse_trailing", kind |-> kind, tail |-> tail,
                       leading |-> GrammarText(kind, p, a, "int"),
                       text |-> WithTail(GrammarText(kind, p, a, "int"), tail)]
            /\ res' = parse_shape_string(WithTail(GrammarText(kind, p, a, "int"), tail))
    /\ UNCHANGED <<temperature_map, query, materials, original_data, sections, registry, thermal_info_templates, runtime_sections>>

InitRest ==
    /\ temperature_map = <<>>
    /\ query = [op |-> "idle"]
    /\ materials = <<>>
    /\ original_data = [templates |-> <<>>, sections |-> <<>>]
    /\ sections = <<>>
    /\ registry = {}
    /\ thermal_info_templates = [present |-> FALSE, entries |-> <<>>]
    /\ runtime_sections = <<>>

InitShape ==
    /\ req = [op |-> "idle"]
    /\ res = NoResult
    /\ InitRest

NextShape ==
    \/ Construct3D \/ ConstructPrism \/ Construct2D \/ Parse \/ RoundTrip \/ Measure
    \/ Contains \/ ParsePrism \/ ParseMalformed \/ ContainsOffset \/ ParseTrailing

SpecShape == InitShape /\ [][NextShape]_vars

\* ------------------------------------------------------------------------
\* models/shape.py: the setters.  A setter is named by the field it sets;
\* a call either raises and leaves the object alone, or assigns the field
\* and the fields derived from it and sets is_modified.
\* ------------------------------------------------------------------------
\* the set_<name> methods each variant declares
Setters(kind) ==
    CASE kind \in {"cube", "oblong_y_prism", "trace"} -> {"length", "width", "height"}
      [] kind \in {"hexagonal_prism"} -> {"diameter", "height"}
      [] kind = "oblique_cube" -> {"skew_x", "skew_y"}
      [] kind = "square_prism" -> {"side", "height"}
      [] kind = "rounded_rect_prism" -> {"width", "height", "depth", "radius"}
      [] kind = "chamfered_rect_prism" -> {"width", "height", "depth", "chamfer"}
      [] kind = "n_sided_polygon_prism" -> {"diameter", "height", "sides"}
      [] kind = "prism" -> {"base_shape", "height"}
      [] kind = "cylinder" -> {"radius", "height"}
      [] kind = "circle" -> {"radius"}
      [] kind = "rectangle" -> {"width", "height"}
      [] kind = "square" -> {"side"}
      [] kind \in {"oblong_x", "oblong_y"} -> {"length", "width"}
      [] kind = "rounded_rectangle" -> {"width", "height", "radius"}
      [] kind = "chamfered_rectangle" -> {"width", "height", "chamfer"}
      [] kind = "n_sided_polygon" -> {"diameter", "sides"}
      [] OTHER -> {}

\* the corner field of a variant and the two planar dimensions that bound it
CornerField(kind) ==
    IF kind \in {"rounded_rect_prism", "rounded_rectangle"} THEN "radius" ELSE "chamfer"
PlanarFields(kind) ==
    IF kind \in {"rounded_rect_prism", "chamfered_rect_prism"} THEN {"width", "depth"}
    ELSE IF kind \in {"rounded_rectangle", "chamfered_rectangle"} THEN {"width", "height"}
    ELSE {}

\* the `if ... raise ValueError` tests of set_<name>, the corner test left out
SetterCheck_no_corner(s, name, value) ==
    IF name \in {"skew_x", "skew_y"} THEN "ok"
    ELSE IF name = "base_shape" THEN (IF value = NoneVal THEN "ValueError" ELSE "ok")
    ELSE IF name = "sides" THEN (IF value < 3 THEN "ValueError" ELSE "ok")
    ELSE IF value <= 0 THEN "ValueError"
    ELSE "ok"

\* the `if ... raise ValueError` tests of set_<name>
SetterCheck(s, name, value) ==
    IF name \in {"skew_x", "skew_y"} THEN "ok"
    ELSE IF name = "base_shape" THEN (IF value = NoneVal THEN "ValueError" ELSE "ok")
    ELSE IF name = "sides" THEN (IF value < 3 THEN "ValueError" ELSE "ok")
    ELSE IF value <= 0 THEN "ValueError"
    ELSE IF name \in PlanarFields(s.kind)
    THEN (IF 2 * s[CornerField(s.kind)]
                > Min2(value, s[CHOOSE f \in PlanarFields(s.kind) : f # name])
          THEN "ValueError" ELSE "ok")
    ELSE IF PlanarFields(s.kind) # {} /\ name = CornerField(s.kind)
    THEN (IF 2 * value > Min2(s[CHOOSE f \in PlanarFields(s.kind) : TRUE],
                              s[CHOOSE f \in PlanarFields(s.kind) :
                                    f # (CHOOSE g \in PlanarFields(s.kind) : TRUE)])
          THEN "ValueError" ELSE "ok")
    ELSE "ok"

\* the assignments of set_<name>: the field, the fields derived from it,
\* is_modified
SetterAssign(s, name, value) ==
    LET t == [s EXCEPT ![name] = value, !.is_modified = TRUE]
    IN  IF s.kind = "hexagonal_prism" /\ name = "diameter"
        THEN [t EXCEPT !.radius = value \div 2,
                       !.side_length = RDiv(RMul(RInt(value), Sqrt3), RInt(2))]
        ELSE IF s.kind \in {"n_sided_polygon_prism", "n_sided_polygon"} /\ name = "diameter"
        THEN [t EXCEPT !.radius = value \div 2]
        ELSE IF s.kind \in {"oblong_y_prism", "oblong_y"} /\ name = "length"
        THEN [t EXCEPT !.radius_y = value \div 2]
        ELSE IF s.kind \in {"oblong_y_prism", "oblong_y"} /\ name = "width"
        THEN [t EXCEPT !.radius_x = value \div 2]
        ELSE IF s.kind = "oblong_x" /\ name = "length"
        THEN [t EXCEPT !.radius_x = value \div 2]
        ELSE IF s.kind = "oblong_x" /\ name = "width"
        THEN [t EXCEPT !.radius_y = value \div 2]
        ELSE t

\* shape.set_<name>(value): the object afterwards
call_setter(s, name, value) ==
    IF SetterCheck(s, name, value) = "ok" THEN SetterAssign(s, name, value) ELSE s

\* ------------------------------------------------------------------------
\* Setter specification: one shape object is constructed and its setters
\* are called one after another
\* ------------------------------------------------------------------------
\* values handed to the setters
SetterVals(name) ==
    CASE name = "sides" -> SideVals
      [] name \in {"skew_x", "skew_y"} -> SkewVals
      [] name = "base_shape" ->
            {NoneVal, Circle(Vec(0, 0, 0), Num(2)).v, Square(Vec(0, 0, 0), Num(4)).v}
      [] OTHER -> DimVals \cup {-2}

\* the objects the setters start from: every variant that declares setters,
\* constructed at the origin
SetterShapes ==
    UNION {{create_3d_shape(kind, Vec(0, 0, 0), a).v :
               a \in {b \in ArgLists(DimNames(kind)) : create_3d_shape(kind, Vec(0, 0, 0), b).ok}} :
           kind \in {k \in Kinds3D \ {"prism"} : Setters(k) # {}}}
    \cup UNION {{create_2d_shape(kind, Vec(0, 0, 0), a).v :
               a \in {b \in ArgLists(DimNames(kind)) : create_2d_shape(kind, Vec(0, 0, 0), b).ok}} :
           kind \in Kinds2D}
    \cup {Prism(Obj(Circle(Vec(0, 0, 0), Num(2)).v), Num(h), Vec(0, 0, 0)).v :
              h \in DimVals \ {0}}

CallSetter ==
    /\ req.op \in {"new", "set"}
    /\ \E name \in Setters(req.shape.kind) :
         \E value \in SetterVals(name) :
            /\ req' = [op |-> "set", name |-> name, value |-> value, before |-> req.shape,
                       shape |-> call_setter(req.shape, name, value)]
            /\ res' = IF SetterCheck(req.shape, name, value) = "ok" THEN Ok(NoneVal)
                       ELSE Raise(SetterCheck(req.shape, name, value))
    /\ UNCHANGED <<temperature_map, query, materials, original_data, sections, registry, thermal_info_templates, runtime_sections>>

InitSet ==
    /\ \E s \in SetterShapes : req = [op |-> "new", shape |-> s]
    /\ res = NoResult
    /\ InitRest

NextSet == CallSetter

SpecSet == InitSet /\ [][NextSet]_vars


\* ------------------------------------------------------------------------
\* models/material.py: MaterialInfo.  temperature_map is the dict of one
\* material, as the sequence of its TemperaturePoint values in insertion
\* order (a Python dict iterates in insertion order; assigning to a key that
\* is present replaces the value and keeps the key's place).  Temperatures
\* are whole kelvins, property values whole numbers; interpolated values are
\* exact rationals.
\* ------------------------------------------------------------------------
MaxTemps == 3

\* temperatures offered to add_temperature_point, and to the queries
Temps == {100 * i : i \in 1..MaxTemps}
QueryTemps == {50 * i : i \in 1..(2 * MaxTemps + 1)}

\* argument rows <<conductivity_x, conductivity_y, conductivity_z, density,
\* heat_capacity>> offered to add_temperature_point
ValueRows ==
    {<<Num(1), NoneVal, NoneVal, 1, 4>>,
     <<Num(2), Num(4), Num(6), 2, 8>>,
     <<Num(4), Num(2), NoneVal, 0, 0>>}

\* Conductivity.__init__: y and z default to x
Conductivity(x, y, z) ==
    [x |-> x.n,
     y |-> IF y.t # "none" THEN y.n ELSE x.n,
     z |-> IF z.t # "none" THEN z.n ELSE x.n]

TemperaturePoint(temperature, conductivity, density, heat_capacity) ==
    [temperature |-> temperature, conductivity |-> conductivity,
     density |-> density, heat_capacity |-> heat_capacity]

\* index of the key in the dict, 0 when absent
KeyIndex(tm, temperature) ==
    IF \E i \in 1..Len(tm) : tm[i].temperature = temperature
    THEN CHOOSE i \in 1..Len(tm) : tm[i].temperature = temperature
    ELSE 0

\* add_temperature_point keeping the point already stored for the temperature
add_temperature_point_keep(tm, temperature, conductivity_x, conductivity_y, conductivity_z, density, heat_capacity) ==
    LET conductivity == Conductivity(conductivity_x, conductivity_y, conductivity_z)
        point == TemperaturePoint(temperature, conductivity, density, heat_capacity)
    IN  IF KeyIndex(tm, temperature) = 0 THEN Append(tm, point) ELSE tm

\* MaterialInfo.add_temperature_point: self.temperature_map[temperature] = point
add_temperature_point(tm, temperature, conductivity_x, conductivity_y, conductivity_z, density, heat_capacity) ==
    LET conductivity == Conductivity(conductivity_x, conductivity_y, conductivity_z)
        point == TemperaturePoint(temperature, conductivity, density, heat_capacity)
        i == KeyIndex(tm, temperature)
    IN  IF i = 0 THEN Append(tm, point) ELSE [tm EXCEPT ![i] = point]

\* sorted(self.temperature_map.items(), key=lambda x: x[0])
RECURSIVE sorted_points(_)
sorted_points(tm) ==
    IF tm = <<>> THEN <<>>
    ELSE LET i == CHOOSE j \in 1..Len(tm) :
                    \A k \in 1..Len(tm) : tm[j].temperature <= tm[k].temperature
             rest == [k \in 1..(Len(tm) - 1) |-> IF k < i THEN tm[k] ELSE tm[k + 1]]
         IN  <<tm[i]>> \o sorted_points(rest)

\* a stored property value as it enters the float arithmetic
PropValue(point, getter) ==
    IF getter = "conductivity"
    THEN [x |-> RInt(point.conductivity.x), y |-> RInt(point.conductivity.y),
          z |-> RInt(point.conductivity.z)]
    ELSE RInt(point[getter])

\* value1 + weight * (value2 - value1)
Lerp(value1, value2, weight) == RAdd(value1, RMul(weight, RSub(value2, value1)))

\* the `for i in range(len(sorted_points) - 1)` loop of _interpolate_property
RECURSIVE InterpolateFrom(_, _, _, _)
InterpolateFrom(sp, i, temperature, getter) ==
    IF i > Len(sp) - 1 THEN PropValue(sp[Len(sp)], getter)
    ELSE IF sp[i].temperature <= temperature /\ temperature <= sp[i + 1].temperature
    THEN LET value1 == PropValue(sp[i], getter)
             value2 == PropValue(sp[i + 1], getter)
             weight == R(temperature - sp[i].temperature,
                         sp[i + 1].temperature - sp[i].temperature)
         IN  IF getter = "conductivity"
             THEN [x |-> Lerp(value1.x, value2.x, weight),
                   y |-> Lerp(value1.y, value2.y, weight),
                   z |-> Lerp(value1.z, value2.z, weight)]
             ELSE Lerp(value1, value2, weight)
    ELSE InterpolateFrom(sp, i + 1, temperature, getter)

\* MaterialInfo._interpolate_property iterating the dict in insertion order
\* instead of sorting it by temperature
_interpolate_property_unsorted(tm, temperature, getter) ==
    IF tm = <<>> THEN NoneVal
    ELSE LET sp == tm
             min_temp == sp[1].temperature
             max_temp == sp[Len(sp)].temperature
         IN  IF temperature <= min_temp THEN PropValue(sp[1], getter)
             ELSE IF temperature >= max_temp THEN PropValue(sp[Len(sp)], getter)
             ELSE InterpolateFrom(sp, 1, temperature, getter)

\* MaterialInfo._interpolate_property
_interpolate_property(tm, temperature, getter) ==
    IF tm = <<>> THEN NoneVal
    ELSE LET sp == sorted_points(tm)
             min_temp == sp[1].temperature
             max_temp == sp[Len(sp)].temperature
         IN  IF temperature <= min_temp THEN PropValue(sp[1], getter)
             ELSE IF temperature >= max_temp THEN PropValue(sp[Len(sp)], getter)
             ELSE InterpolateFrom(sp, 1, temperature, getter)

\* MaterialInfo.get_conductivity with the single point shortcut dropping
\* into the no-data branch
get_conductivity_no_single(tm, temperature) ==
    IF Len(tm) <= 1 THEN [x |-> RInt(0), y |-> RInt(0), z |-> RInt(0)]
    ELSE _interpolate_property(tm, temperature, "conductivity")

\* MaterialInfo.get_conductivity
get_conductivity(tm, temperature) ==
    IF tm = <<>> THEN [x |-> RInt(0), y |-> RInt(0), z |-> RInt(0)]
    ELSE IF Len(tm) = 1 THEN PropValue(tm[1], "conductivity")
    ELSE _interpolate_property(tm, temperature, "conductivity")

\* MaterialInfo.get_density / get_heat_capacity
get_density(tm, temperature) == _interpolate_property(tm, temperature, "density")
get_heat_capacity(tm, temperature) ==
    _interpolate_property(tm, temperature, "heat_capacity")

\* MaterialInfo.is_temperature_dependent
is_temperature_dependent(tm) == Len(tm) > 1

\* ------------------------------------------------------------------------
\* Material specification: points are added to one MaterialInfo and its
\* properties are queried
\* ------------------------------------------------------------------------
MatAddTemperaturePoint ==
    /\ \E temperature \in Temps, row \in ValueRows :
          temperature_map' = add_temperature_point(temperature_map, temperature,
                                 row[1], row[2], row[3], row[4], row[5])
    /\ query' = [op |-> "idle"]
    /\ UNCHANGED <<req, res, materials, original_data, sections, registry, thermal_info_templates, runtime_sections>>

MatQuery ==
    /\ \E temperature \in QueryTemps :
          query' = [op |-> "properties", temperature |-> temperature,
                    conductivity |-> get_conductivity(temperature_map, temperature),
                    density |-> get_density(temperature_map, temperature),
                    heat_capacity |-> get_heat_capacity(temperature_map, temperature)]
    /\ UNCHANGED <<req, res, temperature_map, materials, original_data, sections, registry, thermal_info_templates, runtime_sections>>

InitMat ==
    /\ req = [op |-> "idle"]
    /\ res = NoResult
    /\ InitRest

NextMat == MatAddTemperaturePoint \/ MatQuery

SpecMat == InitMat /\ [][NextMat]_vars

\* ------------------------------------------------------------------------
\* models/material.py and models/composite.py: validation and the effective
\* properties of a CompositeMaterial.  A material is [name, temperature_map];
\* `materials` is the composite's list of (material, percentage) pairs, the
\* percentage counted in hundredths.
\* ------------------------------------------------------------------------
MaxComponents == 2

\* the percentage 1.0, in hundredths
PctOne == 100
\* 1 / 1e-6, the tolerance of the sum test
TolDen == 1000000

\* percentages offered to add_material
PctVals == {-20, 0, 30, 70, 100, 120}

MaterialInfo(name, tm) == [name |-> name, temperature_map |-> tm]

\* the materials registered with the manager
Catalog ==
    {MaterialInfo("A", add_temperature_point(<<>>, 100, Num(1), NoneVal, NoneVal, 1, 4)),
     MaterialInfo("B", add_temperature_point(
                          add_temperature_point(<<>>, 300, Num(2), Num(4), Num(6), 4, 8),
                          100, Num(4), Num(2), NoneVal, 2, 0)),
     MaterialInfo("E", <<>>),
     MaterialInfo("N", add_temperature_point(<<>>, -100, Num(1), NoneVal, NoneVal, 1, 4))}

\* validate with a non-positive density or heat capacity made fatal
MaterialInfo_validate_strict(m) ==
    IF m.name = "" THEN FALSE
    ELSE IF m.temperature_map = <<>> THEN FALSE
    ELSE IF \E i \in 1..Len(m.temperature_map) :
                \/ m.temperature_map[i].temperature < 0
                \/ m.temperature_map[i].density <= 0
                \/ m.temperature_map[i].heat_capacity <= 0
    THEN FALSE
    ELSE TRUE

\* MaterialInfo.validate
MaterialInfo_validate(m) ==
    IF m.name = "" THEN FALSE
    ELSE IF m.temperature_map = <<>> THEN FALSE
    ELSE IF \E i \in 1..Len(m.temperature_map) : m.temperature_map[i].temperature < 0
    THEN FALSE
    ELSE TRUE

\* CompositeMaterial.add_material
add_material(ms, material, percentage) ==
    Append(ms, [material |-> material, percentage |-> percentage])

\* sum(mat[1] for mat in self.materials)
RECURSIVE total_percentage(_)
total_percentage(ms) ==
    IF ms = <<>> THEN 0 ELSE ms[1].percentage + total_percentage(Tail(ms))

\* value * percentage
Weighted(value, percentage) == RMul(value, R(percentage, PctOne))

\* the loop of get_effective_conductivity from component i on
RECURSIVE ConductivityLoop(_, _, _, _)
ConductivityLoop(ms, i, temperature, acc) ==
    IF i > Len(ms) THEN acc
    ELSE LET conductivity == get_conductivity(ms[i].material.temperature_map, temperature)
         IN  ConductivityLoop(ms, i + 1, temperature,
                [x |-> RAdd(acc.x, Weighted(conductivity.x, ms[i].percentage)),
                 y |-> RAdd(acc.y, Weighted(conductivity.y, ms[i].percentage)),
                 z |-> RAdd(acc.z, Weighted(conductivity.z, ms[i].percentage))])

\* CompositeMaterial.get_effective_conductivity
get_effective_conductivity(ms, temperature) ==
    ConductivityLoop(ms, 1, temperature, [x |-> RInt(0), y |-> RInt(0), z |-> RInt(0)])

\* the loop of get_effective_density / get_effective_heat_capacity from
\* component i on; a material without points yields None, and
\* `None * percentage` raises TypeError
RECURSIVE ScalarLoop(_, _, _, _, _)
ScalarLoop(ms, i, temperature, getter, acc) ==
    IF i > Len(ms) THEN Ok(acc)
    ELSE LET value == _interpolate_property(ms[i].material.temperature_map,
                                            temperature, getter)
         IN  IF ms[i].material.temperature_map = <<>> THEN Raise("TypeError")
             ELSE ScalarLoop(ms, i + 1, temperature, getter,
                             RAdd(acc, Weighted(value, ms[i].percentage)))

\* get_effective_density with `effective_density = density * percentage`
\* in place of `+=`
get_effective_density_last(ms, temperature) ==
    IF ms = <<>> THEN Ok(RInt(0))
    ELSE ScalarLoop(ms, Len(ms), temperature, "density", RInt(0))

\* CompositeMaterial.get_effective_density
get_effective_density(ms, temperature) ==
    IF ms = <<>> THEN Ok(RInt(0))
    ELSE ScalarLoop(ms, 1, temperature, "density", RInt(0))

\* CompositeMaterial.get_effective_heat_capacity
get_effective_heat_capacity(ms, temperature) ==
    IF ms = <<>> THEN Ok(RInt(0))
    ELSE ScalarLoop(ms, 1, temperature, "heat_capacity", RInt(0))

\* abs(total_percentage - 1.0) > 1e-6
SumMismatch(ms) == Abs(total_percentage(ms) - PctOne) * TolDen > PctOne

\* the per component loop of CompositeMaterial.validate
ComponentsValid(ms) ==
    \A i \in 1..Len(ms) :
        /\ MaterialInfo_validate(ms[i].material)
        /\ ~(ms[i].percentage <= 0 \/ ms[i].percentage > PctOne)

\* CompositeMaterial.validate without the test of the percentage sum
CompositeMaterial_validate_no_sum(ms) ==
    IF ms = <<>> THEN FALSE
    ELSE ComponentsValid(ms)

\* CompositeMaterial.validate
CompositeMaterial_validate(ms) ==
    IF ms = <<>> THEN FALSE
    ELSE IF SumMismatch(ms) THEN FALSE
    ELSE ComponentsValid(ms)

\* ------------------------------------------------------------------------
\* Composite specification: components are added to one CompositeMaterial,
\* which is queried and validated
\* ------------------------------------------------------------------------
CompAddMaterial ==
    /\ Len(materials) < MaxComponents
    /\ \E material \in Catalog, percentage \in PctVals :
          materials' = add_material(materials, material, percentage)
    /\ query' = [op |-> "idle"]
    /\ UNCHANGED <<req, res, temperature_map, original_data, sections, registry, thermal_info_templates, runtime_sections>>

CompQuery ==
    /\ \E temperature \in QueryTemps :
          query' = [op |-> "effective", temperature |-> temperature,
                    conductivity |-> get_effective_conductivity(materials, temperature),
                    density |-> get_effective_density(materials, temperature),
                    heat_capacity |-> get_effective_heat_capacity(materials, temperature)]
    /\ UNCHANGED <<req, res, temperature_map, materials, original_data, sections, registry, thermal_info_templates, runtime_sections>>

CompValidate ==
    /\ query' = [op |-> "validate", result |-> CompositeMaterial_validate(materials)]
    /\ UNCHANGED <<req, res, temperature_map, materials, original_data, sections, registry, thermal_info_templates, runtime_sections>>

InitComp ==
    /\ req = [op |-> "idle"]
    /\ res = NoResult
    /\ InitRest

NextComp == CompAddMaterial \/ CompQuery \/ CompValidate

SpecComp == InitComp /\ [][NextComp]_vars

\* ------------------------------------------------------------------------
\* Validation specification: points are added to one MaterialInfo, any
\* temperature and any density included, and the material is validated and
\* asked whether it is temperature dependent.  req.calls is the sequence of
\* the add_temperature_point calls made so far.
\* ------------------------------------------------------------------------
MaxCalls == 4

\* temperatures offered, a negative one and zero included
ValTemps == {-100, 0, 100}

\* argument rows offered, with non-positive density and heat capacity
ValRows ==
    {<<Num(1), NoneVal, NoneVal, 1, 4>>,
     <<Num(2), NoneVal, NoneVal, 0, 4>>,
     <<Num(4), NoneVal, NoneVal, -1, 0>>}

\* names of the material validated
ValNames == {"M", ""}

ValAddTemperaturePoint ==
    /\ Len(req.calls) < MaxCalls
    /\ \E temperature \in ValTemps, row \in ValRows :
          /\ temperature_map' = add_temperature_point(temperature_map, temperature,
                                    row[1], row[2], row[3], row[4], row[5])
          /\ req' = [op |-> "add_temperature_point",
                     calls |-> Append(req.calls, <<temperature, row>>)]
    /\ query' = [op |-> "idle"]
    /\ UNCHANGED <<res, materials, original_data, sections, registry, thermal_info_templates, runtime_sections>>

ValValidate ==
    /\ \E name \in ValNames :
          query' = [op |-> "validate", name |-> name,
                    result |-> MaterialInfo_validate(MaterialInfo(name, temperature_map))]
    /\ UNCHANGED <<req, res, temperature_map, materials, original_data, sections, registry, thermal_info_templates, runtime_sections>>

ValIsTemperatureDependent ==
    /\ query' = [op |-> "is_temperature_dependent",
                 result |-> is_temperature_dependent(temperature_map)]
    /\ UNCHANGED <<req, res, temperature_map, materials, original_data, sections, registry, thermal_info_templates, runtime_sections>>

InitVal ==
    /\ req = [op |-> "idle", calls |-> <<>>]
    /\ res = NoResult
    /\ InitRest

NextVal == ValAddTemperaturePoint \/ ValValidate \/ ValIsTemperatureDependent

SpecVal == InitVal /\ [][NextVal]_vars

\* ------------------------------------------------------------------------
\* models/geometry.py: building Sections and their child components from the
\* description.  A JSON object is a record with the set `keys` of the keys
\* present; a template reference `name([c1,c2,..])` is [name, coords,
\* matches], `matches` telling whether the text has the shape the regular
\* expression of _get_template_info requires.
\* ------------------------------------------------------------------------
MaxVariants == 2
MaxChildren == 2
MaxSections == 1

\* a Python list value
PyList(v) == [t |-> "list", v |-> v]

\* all sequences over S of length at most n
SeqsUpTo(S, n) == UNION {[1..k -> S] : k \in 0..n}

\* section tags of template variants, and names of section records
SectionTags == {"Die", "Pkg"}
SectionNames == {"Die", "Other"}

\* `cube([x,y,z],l,w,h)` and `cylinder([x,y,z],r,h)` written with integers
CubeText(p, d) == Text("cube", <<Toks("int", p)>>, Toks("int", d))
CylinderText(p, d) == Text("cylinder", <<Toks("int", p)>>, Toks("int", d))

\* cube sizes offered to template variants
TemplateDims == {<<4, 4, 4>>, <<2, 4, 6>>}

\* one variant (entry of a template's "shapes" list)
Variant(section, shape, mats) ==
    [keys |-> {"section", "shape", "materials"}, section |-> section,
     shape |-> shape, materials |-> mats]

VariantChoices ==
    {Variant(tag, CubeText(<<0, 0, 0>>, <<4, 4, 4>>), <<[name |-> "A"]>>) : tag \in SectionTags}
    \cup {Variant(tag, CubeText(<<0, 0, 0>>, <<2, 4, 6>>), <<[name |-> "X"]>>) : tag \in SectionTags}
    \cup {Variant("Die", CylinderText(<<0, 0, 0>>, <<2, 4>>), <<>>),
          Variant("Die", CubeText(<<2, 2, 2>>, <<4, 4, 4>>), <<[name |-> "A"]>>)}

\* the "templates" tables offered: none, or template T1 with some variants
TemplateTables ==
    {<<>>} \cup {<<[name |-> "T1", shapes |-> vs]>> : vs \in SeqsUpTo(VariantChoices, MaxVariants)}

TemplateRef(name, coords) ==
    [name |-> name, coords |-> Toks("int", coords), matches |-> TRUE]

\* child records offered
ChildChoices ==
    {[keys |-> {"template"}, template |-> TemplateRef("T1", <<2, 2, 2>>), material |-> ""],
     [keys |-> {"template"}, template |-> TemplateRef("T1", <<4, 4, 4>>), material |-> ""],
     [keys |-> {"template"}, template |-> TemplateRef("T1", <<2, 2>>), material |-> ""],
     [keys |-> {"template", "material"}, template |-> TemplateRef("T1", <<2, 2, 2>>),
      material |-> "A"]}

\* section shapes offered: a zero size cube and a cube of side 6
SectionShapes == {CubeText(<<0, 0, 0>>, <<0, 0, 0>>), CubeText(<<0, 0, 0>>, <<6, 6, 6>>)}

SectionRecord(keys, name, shape, children, mats) ==
    [keys |-> keys, name |-> name, shape |-> shape, children |-> children,
     materials |-> mats]

\* section records offered
SectionRecords ==
    {SectionRecord({"name", "children"}, n, Text("", <<>>, <<>>), cs, <<>>) :
        n \in SectionNames, cs \in SeqsUpTo(ChildChoices, MaxChildren)}
    \cup {SectionRecord({"name", "shape", "children"}, n, sh, cs, <<>>) :
        n \in SectionNames, sh \in SectionShapes, cs \in SeqsUpTo(ChildChoices, MaxChildren)}
    \cup {SectionRecord({"name", "shape", "materials"}, n, sh, <<>>, ms) :
        n \in SectionNames, sh \in SectionShapes,
        ms \in {<<[name |-> "A", percentage |-> PctOne]>>,
                <<[name |-> "X", percentage |-> PctOne]>>,
                <<[name |-> "A", percentage |-> 30], [name |-> "B", percentage |-> 70]>>}}
    \cup {SectionRecord({"name", "shape", "transparency"}, n, sh, <<>>, <<>>)
                @@ [transparency |-> tr] :
        n \in SectionNames, sh \in SectionShapes, tr \in {PctOne \div 2, 2 * PctOne}}

\* MaterialInfosMgr.get_material: self.materials.get(name)
get_material(name) ==
    IF \E m \in registry : m.name = name
    THEN CHOOSE m \in registry : m.name = name
    ELSE NoneVal

\* re.sub(r'\[0,0,0\]', f'[{position_str}]', shape_string): every
\* coordinate group written exactly `[0,0,0]` becomes the reference's
\* coordinates as they were written there
ZeroGroup == <<IntTok(0), IntTok(0), IntTok(0)>>

\* the substitution left out: the variant's text is parsed as it stands
SubstitutePosition_none(shape_string, coords) == shape_string

SubstitutePosition(shape_string, coords) ==
    [shape_string EXCEPT !.groups =
        [i \in 1..Len(shape_string.groups) |->
            IF shape_string.groups[i] = ZeroGroup THEN coords
            ELSE shape_string.groups[i]]]

\* position_values[:3] of the reference's coordinates, [0.0, 0.0, 0.0] when
\* fewer than three are given or one is not a number
RefPosition(coords) ==
    IF \E i \in 1..Len(coords) : ~ToFloat(coords[i]).ok THEN PyList(<<0, 0, 0>>)
    ELSE IF Len(coords) >= 3
    THEN PyList(<<ToFloat(coords[1]).v, ToFloat(coords[2]).v, ToFloat(coords[3]).v>>)
    ELSE PyList(<<0, 0, 0>>)

\* index of the first template of the table with the name, 0 when absent
TemplateIndex(templates, template_name) ==
    IF \E i \in 1..Len(templates) : templates[i].name = template_name
    THEN CHOOSE i \in 1..Len(templates) :
            /\ templates[i].name = template_name
            /\ \A j \in 1..(i - 1) : templates[j].name # template_name
    ELSE 0

\* index of the last variant whose "section" equals the parent's name
VariantIndex_last(shapes, parent_section_name) ==
    LET hit(i) == "section" \in shapes[i].keys /\ shapes[i].section = parent_section_name
    IN  IF \E i \in 1..Len(shapes) : hit(i)
        THEN CHOOSE i \in 1..Len(shapes) : hit(i) /\ \A j \in (i + 1)..Len(shapes) : ~hit(j)
        ELSE 0

\* index of the first variant whose "section" equals the parent's name
VariantIndex(shapes, parent_section_name) ==
    LET hit(i) == "section" \in shapes[i].keys /\ shapes[i].section = parent_section_name
    IN  IF \E i \in 1..Len(shapes) : hit(i)
        THEN CHOOSE i \in 1..Len(shapes) : hit(i) /\ \A j \in 1..(i - 1) : ~hit(j)
        ELSE 0

\* the shape of a parse that succeeded, None after a caught exception
ShapeOrNone(parsed) == IF parsed.ok THEN parsed.v ELSE NoneVal

\* the registered material of a non-empty name, else None
MaterialOrNone(material_name) ==
    IF material_name # "" THEN get_material(material_name) ELSE NoneVal

\* shape["materials"][0]["name"], "" when there is no first material
FirstMaterialName(shape) ==
    IF "materials" \in shape.keys /\ shape.materials # <<>>
    THEN shape.materials[1].name ELSE ""

\* the result dictionary with the material kept only beside a parsed shape
VariantInfo_shape_first(shape, coords) ==
    [t |-> "dict",
     material |-> IF "shape" \in shape.keys
                     /\ parse_shape_string(SubstitutePosition(shape.shape, coords)).ok
                  THEN MaterialOrNone(FirstMaterialName(shape)) ELSE NoneVal,
     shape |-> IF "shape" \in shape.keys
               THEN ShapeOrNone(parse_shape_string(SubstitutePosition(shape.shape, coords)))
               ELSE NoneVal,
     position |-> RefPosition(coords)]

\* the result dictionary built from the matching variant
VariantInfo(shape, coords) ==
    [t |-> "dict",
     material |-> MaterialOrNone(FirstMaterialName(shape)),
     shape |-> IF "shape" \in shape.keys
               THEN ShapeOrNone(parse_shape_string(SubstitutePosition(shape.shape, coords)))
               ELSE NoneVal,
     position |-> RefPosition(coords)]

\* VerticalInterconnectInfo.from_json of a record: name, componentType
\* (PadStack unless the record says BallBump), shape (None without "shape")
VerticalInterconnectInfo(name) ==
    [name |-> name, component_type |-> "PadStack", shape |-> NoneVal]

\* VerticalInterconnectInfo.to_json: a dictionary with the keys name,
\* componentType and shape
VerticalInterconnectInfo_to_json(info) ==
    [name |-> info.name, componentType |-> info.component_type, shape |-> info.shape]

\* thermal_info.templates[template_name].to_json() when thermal_info has the
\* attribute `templates` and the name is a key of it, else None
IndexedDefinition(template_name) ==
    IF thermal_info_templates.present
       /\ \E i \in 1..Len(thermal_info_templates.entries) :
              thermal_info_templates.entries[i].name = template_name
    THEN VerticalInterconnectInfo_to_json(
             thermal_info_templates.entries[
                 CHOOSE i \in 1..Len(thermal_info_templates.entries) :
                     thermal_info_templates.entries[i].name = template_name])
    ELSE NoneVal

\* the definition found: the indexed one, else the first of the table with
\* the name, else None
TemplateDefinition(template_name, data) ==
    IF IndexedDefinition(template_name) # NoneVal THEN IndexedDefinition(template_name)
    ELSE IF TemplateIndex(data.templates, template_name) # 0
    THEN data.templates[TemplateIndex(data.templates, template_name)]
    ELSE NoneVal

\* the scan of the definition's "shapes" for the parent's name
ScanVariants(template_def, parent_section_name, coords) ==
    IF "shapes" \notin DOMAIN template_def THEN NoneVal
    ELSE IF VariantIndex(template_def.shapes, parent_section_name) = 0 THEN NoneVal
    ELSE VariantInfo(template_def.shapes[VariantIndex(template_def.shapes, parent_section_name)],
                     coords)

\* SectionComponent._get_template_info
_get_template_info(component_data, parent_section_name, data) ==
    IF "template" \notin component_data.keys THEN NoneVal
    ELSE IF ~component_data.template.matches THEN NoneVal
    ELSE IF TemplateDefinition(component_data.template.name, data) = NoneVal THEN NoneVal
    ELSE ScanVariants(TemplateDefinition(component_data.template.name, data),
                      parent_section_name, component_data.template.coords)

\* BaseComponent.__init__ + SectionComponent.__init__
NewComponent(name) ==
    [name |-> name, template_name |-> "", shape |-> NoneVal, material |-> NoneVal,
     position |-> NoneVal, boolean_operation |-> "difference"]

\* SectionComponent.from_json, for records with the keys "name", "material",
\* "materials", "template" and "shape" (a missing name is replaced by a
\* generated one; no step of from_json reads the key "shape")
ComponentName(child_data) ==
    IF "name" \notin child_data.keys THEN "component_uuid" ELSE child_data.name

\* set_material(material_info) under `if material_info:`
WithMaterial(c, material_info) ==
    IF material_info # NoneVal THEN [c EXCEPT !.material = material_info] ELSE c

\* the `if template_info:` block: the fields present are installed
WithTemplateInfo(c, template_info) ==
    IF template_info = NoneVal THEN c
    ELSE [c EXCEPT !.material = template_info.material,
                   !.shape = template_info.shape,
                   !.position = template_info.position]

\* from_json with the template looked up whatever the record carries
SectionComponent_from_json_template(child_data, parent_section_name, data) ==
    WithTemplateInfo(WithMaterial(NewComponent(ComponentName(child_data)),
                                  MaterialOrNone(IF "material" \in child_data.keys
                                                 THEN child_data.material ELSE "")),
                     _get_template_info(child_data, parent_section_name, data))

SectionComponent_from_json(child_data, parent_section_name, data) ==
    IF "material" \in child_data.keys
    THEN WithMaterial(NewComponent(ComponentName(child_data)),
                      MaterialOrNone(child_data.material))
    ELSE IF "materials" \in child_data.keys
    THEN WithMaterial(NewComponent(ComponentName(child_data)),
                      MaterialOrNone(FirstMaterialName(child_data)))
    ELSE WithTemplateInfo(NewComponent(ComponentName(child_data)),
                          _get_template_info(child_data, parent_section_name, data))

\* the `for child_data in children_data` loop of Section.from_json
RECURSIVE BuildChildren(_, _, _)
BuildChildren(children_data, parent_section_name, data) ==
    IF children_data = <<>> THEN <<>>
    ELSE <<SectionComponent_from_json(Head(children_data), parent_section_name, data)>>
         \o BuildChildren(Tail(children_data), parent_section_name, data)

\* the children that own a shape
ShapedChildren(children) == SelectSeq(children, LAMBDA c : c.shape # NoneVal)

\* the min/max accumulation of get_children_bounding_box_union over boxes
RECURSIVE UnionLoop(_, _)
UnionLoop(boxes, acc) ==
    IF boxes = <<>> THEN acc
    ELSE LET bbox == Head(boxes)
         IN  UnionLoop(Tail(boxes),
                <<Min2(acc[1], bbox.min_x), Min2(acc[2], bbox.min_y),
                  Min2(acc[3], bbox.min_z), Max2(acc[4], bbox.max_x),
                  Max2(acc[5], bbox.max_y), Max2(acc[6], bbox.max_z)>>)

\* Section.get_children_bounding_box_union: Ok(tuple), or the exception of a
\* child's get_bounding_box
ChildBoxes(shaped) == [i \in 1..Len(shaped) |-> get_bounding_box(shaped[i].shape)]

UnionOfBoxes(boxes) ==
    IF boxes = <<>> THEN Ok(<<0, 0, 0, 0, 0, 0>>)
    ELSE IF \E i \in 1..Len(boxes) : ~boxes[i].ok
    THEN boxes[CHOOSE i \in 1..Len(boxes) :
                  ~boxes[i].ok /\ \A j \in 1..(i - 1) : boxes[j].ok]
    ELSE Ok(UnionLoop([i \in 1..Len(boxes) |-> boxes[i].v],
                      <<boxes[1].v.min_x, boxes[1].v.min_y, boxes[1].v.min_z,
                        boxes[1].v.max_x, boxes[1].v.max_y, boxes[1].v.max_z>>))

get_children_bounding_box_union(children) ==
    UnionOfBoxes(ChildBoxes(ShapedChildren(children)))

\* shapes with the attributes length, width and height
HasLWH(shape) ==
    shape.kind \in {"cube", "oblique_cube", "rect_prism", "oblong_x_prism",
                    "oblong_y_prism", "trace"}

\* (max_x - min_x, max_y - min_y, max_z - min_z) of the union tuple
BoxExtent(bbox) ==
    IF ~bbox.ok THEN bbox
    ELSE Ok(<<bbox.v[4] - bbox.v[1], bbox.v[5] - bbox.v[2], bbox.v[6] - bbox.v[3]>>)

\* Section.get_effective_dimensions
get_effective_dimensions(section) ==
    IF /\ section.shape # NoneVal
       /\ HasLWH(section.shape)
       /\ section.shape.length > 0 /\ section.shape.width > 0 /\ section.shape.height > 0
    THEN Ok(<<section.shape.length, section.shape.width, section.shape.height>>)
    ELSE BoxExtent(get_children_bounding_box_union(section.children))

\* the shape takes the effective dimensions when they are all positive
WithDimensions(section, effective_dims) ==
    IF ~effective_dims.ok THEN effective_dims
    ELSE IF effective_dims.v[1] > 0 /\ effective_dims.v[2] > 0 /\ effective_dims.v[3] > 0
    THEN Ok([section EXCEPT !.shape.length = effective_dims.v[1],
                            !.shape.width = effective_dims.v[2],
                            !.shape.height = effective_dims.v[3]])
    ELSE Ok(section)

\* the back-fill step of Section.from_json: a shape with a zero length, width
\* or height takes the effective dimensions when they are all positive
BackFill(section) ==
    IF /\ section.shape # NoneVal
       /\ HasLWH(section.shape)
       /\ (section.shape.length = 0 \/ section.shape.width = 0 \/ section.shape.height = 0)
    THEN WithDimensions(section, get_effective_dimensions(section))
    ELSE Ok(section)

\* the materials step of Section.from_json.  With more than one entry the
\* names are handed to CompositeMaterial.add_material, which reads
\* `material.name` of a str and raises AttributeError.
SectionMaterials(section, section_data) ==
    IF "materials" \notin section_data.keys \/ section_data.materials = <<>>
    THEN Ok(section)
    ELSE IF Len(section_data.materials) > 1
    THEN IF \E i \in 1..Len(section_data.materials) : section_data.materials[i].name # ""
         THEN Raise("AttributeError")
         ELSE Ok(section)
    ELSE Ok(WithMaterial(section, MaterialOrNone(section_data.materials[1].name)))

\* Section.from_json, for records with the keys "name", "shape", "children",
\* "materials" and "transparency": Ok(section) or the exception that leaves it
SectionName(section_data) ==
    IF "name" \in section_data.keys THEN section_data.name ELSE ""

\* the Section after the name, shape and children steps
SectionBody(section_data, data) ==
    [name |-> SectionName(section_data),
     shape |-> IF "shape" \in section_data.keys
               THEN ShapeOrNone(parse_shape_string(section_data.shape))
               ELSE NoneVal,
     children |-> IF "children" \in section_data.keys
                  THEN BuildChildren(section_data.children, SectionName(section_data), data)
                  ELSE <<>>,
     material |-> NoneVal, position |-> NoneVal]

\* the transparency step of Section.from_json: a value within [0, 1] is
\* handed to self.set_transparency, a method Section does not have
SectionTransparency(with_materials, section_data) ==
    IF ~with_materials.ok THEN with_materials
    ELSE IF "transparency" \notin section_data.keys THEN with_materials
    ELSE IF 0 <= section_data.transparency /\ section_data.transparency <= PctOne
    THEN Raise("AttributeError")
    ELSE with_materials

\* the materials and transparency steps follow a back-fill that raised
\* nothing
AfterBackFill(filled, section_data) ==
    IF ~filled.ok THEN filled
    ELSE SectionTransparency(SectionMaterials(filled.v, section_data), section_data)

Section_from_json(section_data, data) ==
    AfterBackFill(BackFill(SectionBody(section_data, data)), section_data)

\* ------------------------------------------------------------------------
\* Assembly specification: ThermalInfo.from_dict reads the section records
\* of a description one after the other
\* ------------------------------------------------------------------------
\* one turn of the `for section_data in sections_data` loop: the next record
\* is built into a Section and appended; an exception ends the load
\* add_section of a Section that was built; a raised exception is kept
AddOrFail(built) ==
    IF built.ok
    THEN sections' = Append(sections, built.v) /\ res' = res
    ELSE sections' = sections /\ res' = built

LoadSection ==
    /\ res = NoResult
    /\ Len(sections) < MaxSections
    /\ \E section_data \in SectionRecords :
          /\ original_data' = [original_data EXCEPT !.sections = Append(@, section_data)]
          /\ AddOrFail(Section_from_json(section_data, original_data))
    /\ UNCHANGED <<req, temperature_map, query, materials, registry, thermal_info_templates, runtime_sections>>

\* the union of the children's boxes and the effective dimensions of a
\* Section built
QueryUnion ==
    /\ \E i \in 1..Len(sections) :
          query' = [op |-> "union", section |-> i,
                    result |-> get_children_bounding_box_union(sections[i].children),
                    dimensions |-> get_effective_dimensions(sections[i])]
    /\ UNCHANGED <<req, res, temperature_map, materials, original_data, sections, registry, thermal_info_templates, runtime_sections>>

InitAsm ==
    /\ req = [op |-> "idle"]
    /\ res = NoResult
    /\ temperature_map = <<>>
    /\ query = [op |-> "idle"]
    /\ materials = <<>>
    /\ \E templates \in TemplateTables :
          original_data = [templates |-> templates, sections |-> <<>>]
    /\ sections = <<>>
    /\ registry = Catalog
    /\ thermal_info_templates = [present |-> FALSE, entries |-> <<>>]
    /\ runtime_sections = <<>>

NextAsm == LoadSection \/ QueryUnion

SpecAsm == InitAsm /\ [][NextAsm]_vars

\* ------------------------------------------------------------------------
\* Component specification: SectionComponent.from_json builds one child of a
\* Section from its record, against the templates table of the description;
\* the same record is then built once more
\* ------------------------------------------------------------------------
\* names of the parent Section (tags are compared with `==`)
ParentNames == {"Die", "die", "Die ", "Pkg"}

ComponentRecord(keys, template, material, mats, shape) ==
    [keys |-> keys, template |-> template, material |-> material,
     materials |-> mats, shape |-> shape]

\* a template string the pattern `^([^(]+)\(\[([^\]]+)\]\)` does not match
NoReference == [name |-> "T1", coords |-> <<>>, matches |-> FALSE]

\* template strings offered: well formed, with two coordinates, with a word
\* as coordinate, not matching the pattern, and naming no template
ReferenceChoices ==
    {TemplateRef("T1", <<2, 2, 2>>), TemplateRef("T1", <<4, 4, 4>>),
     TemplateRef("T1", <<2, 2>>),
     [name |-> "T1", coords |-> <<WordTok, IntTok(2), IntTok(2)>>, matches |-> TRUE],
     NoReference, TemplateRef("T9", <<2, 2, 2>>)}

\* component records offered
ComponentRecords ==
    {ComponentRecord({"template"}, r, "", <<>>, Text("", <<>>, <<>>)) : r \in ReferenceChoices}
    \cup {ComponentRecord({"template", "material"}, TemplateRef("T1", <<2, 2, 2>>), mn, <<>>,
                          Text("", <<>>, <<>>)) : mn \in {"A", "X", ""}}
    \cup {ComponentRecord({"template", "materials"}, TemplateRef("T1", <<2, 2, 2>>), "",
                          <<[name |-> "B"]>>, Text("", <<>>, <<>>)),
          ComponentRecord({"material"}, NoReference, "A", <<>>, Text("", <<>>, <<>>)),
          ComponentRecord({}, NoReference, "", <<>>, Text("", <<>>, <<>>)),
          ComponentRecord({"shape"}, NoReference, "", <<>>,
                          CubeText(<<2, 2, 2>>, <<4, 4, 4>>)),
          ComponentRecord({"shape", "material"}, NoReference, "A", <<>>,
                          CubeText(<<2, 2, 2>>, <<4, 4, 4>>)),
          ComponentRecord({"shape", "template"}, TemplateRef("T1", <<4, 4, 4>>), "", <<>>,
                          CubeText(<<2, 2, 2>>, <<4, 4, 4>>))}

\* from_json with the templates table emptied by the resolution
BuildComponent_consume ==
    /\ \E child_data \in ComponentRecords, parent_section_name \in ParentNames :
          /\ req' = [op |-> "from_json", data |-> child_data,
                     parent_section_name |-> parent_section_name]
          /\ res' = Ok(SectionComponent_from_json(child_data, parent_section_name,
                                                  original_data))
    /\ original_data' = [original_data EXCEPT !.templates = <<>>]
    /\ UNCHANGED <<temperature_map, query, materials, sections, registry, thermal_info_templates, runtime_sections>>

\* child = SectionComponent(); child.from_json(child_data, parent name, ...),
\* after whatever was built before
BuildComponent ==
    /\ \E child_data \in ComponentRecords, parent_section_name \in ParentNames :
          /\ req' = [op |-> "from_json", data |-> child_data,
                     parent_section_name |-> parent_section_name]
          /\ res' = Ok(SectionComponent_from_json(child_data, parent_section_name,
                                                  original_data))
    /\ UNCHANGED <<temperature_map, query, materials, original_data, sections, registry, thermal_info_templates, runtime_sections>>

\* a second SectionComponent built from the record of the first
RebuildComponent ==
    /\ req.op = "from_json"
    /\ req' = [op |-> "rebuild", data |-> req.data,
               parent_section_name |-> req.parent_section_name, first |-> res.v]
    /\ res' = Ok(SectionComponent_from_json(req.data, req.parent_section_name,
                                            original_data))
    /\ UNCHANGED <<temperature_map, query, materials, original_data, sections, registry, thermal_info_templates, runtime_sections>>

\* temperatures at which the registered materials are queried
RegistryQueryTemps == {200}

\* the property queries on a material of the registry
QueryRegistered ==
    /\ \E m \in registry, temperature \in RegistryQueryTemps :
          query' = [op |-> "properties", name |-> m.name, temperature |-> temperature,
                    conductivity |-> get_conductivity(m.temperature_map, temperature),
                    density |-> get_density(m.temperature_map, temperature),
                    heat_capacity |-> get_heat_capacity(m.temperature_map, temperature)]
    /\ UNCHANGED <<req, res, temperature_map, materials, original_data, sections, registry, thermal_info_templates, runtime_sections>>

\* the `templates` attribute a thermal_info object handed to from_json may
\* have: none (a ThermalInfo has none of its own), an empty dictionary, or
\* a dictionary holding the VerticalInterconnectInfo of T1
TemplateIndexes ==
    {[present |-> FALSE, entries |-> <<>>],
     [present |-> TRUE, entries |-> <<>>],
     [present |-> TRUE, entries |-> <<VerticalInterconnectInfo("T1")>>]}

InitChild ==
    /\ req = [op |-> "idle"]
    /\ res = NoResult
    /\ temperature_map = <<>>
    /\ query = [op |-> "idle"]
    /\ materials = <<>>
    /\ \E templates \in TemplateTables :
          original_data = [templates |-> templates, sections |-> <<>>]
    /\ sections = <<>>
    /\ registry = Catalog
    /\ thermal_info_templates \in TemplateIndexes
    /\ runtime_sections = <<>>

NextChild == BuildComponent \/ RebuildComponent

SpecChild == InitChild /\ [][NextChild]_vars

\* ------------------------------------------------------------------------
\* Library specification: components are built one after another against a
\* library (registry, templates table, template index) and the registered
\* materials are queried in between
\* ------------------------------------------------------------------------
\* the tables of the library: none, or T1 with at most one variant
LibraryTables ==
    {<<>>} \cup {<<[name |-> "T1", shapes |-> vs]>> : vs \in SeqsUpTo(VariantChoices, 1)}

InitLib ==
    /\ req = [op |-> "idle"]
    /\ res = NoResult
    /\ temperature_map = <<>>
    /\ query = [op |-> "idle"]
    /\ materials = <<>>
    /\ \E templates \in LibraryTables :
          original_data = [templates |-> templates, sections |-> <<>>]
    /\ sections = <<>>
    /\ registry = Catalog
    /\ thermal_info_templates \in TemplateIndexes
    /\ runtime_sections = <<>>

NextLib == BuildComponent \/ RebuildComponent \/ QueryRegistered

SpecLib == InitLib /\ [][NextLib]_vars

\* ------------------------------------------------------------------------
\* Relationship specification: GeometryManager.establish_parent_child_
\* relationships walks the sections of the manager and, per section, the
\* list of its children.  A Python `for` over a list reads the element at
\* the next index until the index reaches the list's current length, so the
\* loop is modelled one iteration at a time.
\* ------------------------------------------------------------------------
\* the longest list the memory holds: an append beyond it raises MemoryError
MaxListLen == 4

\* Section.__init__ followed by add_component of each child
NewSection(name, children) ==
    [name |-> name, shape |-> NoneVal, children |-> children,
     material |-> NoneVal, position |-> NoneVal]

\* SectionComponent.__init__ followed by set_boolean_operation
TaggedComponent(name, operation) ==
    [NewComponent(name) EXCEPT !.boolean_operation = operation]

\* the children lists a section starts with: distinct objects, told apart by
\* their names
RelChildren ==
    {<<>>}
    \cup {<<TaggedComponent("c1", o)>> : o \in {"difference", "union"}}
    \cup {<<TaggedComponent("c1", o1), TaggedComponent("c2", o2)>> :
              o1 \in {"difference", "union"}, o2 \in {"difference", "union"}}

RelSections ==
    {<<NewSection("S1", c1)>> : c1 \in RelChildren}
    \cup {<<NewSection("S1", c1), NewSection("S2", c2)>> :
              c1 \in RelChildren, c2 \in RelChildren}

\* Section.add_child_with_operation: the child object is tagged, which shows
\* in every place of the list that holds the same object, and is appended
add_child_with_operation(section, child, operation) ==
    [section EXCEPT !.children =
        Append([k \in 1..Len(@) |->
                   IF @[k].name = child.name
                   THEN [@[k] EXCEPT !.boolean_operation = operation] ELSE @[k]],
               [child EXCEPT !.boolean_operation = operation])]

\* the call of establish_parent_child_relationships
Establish ==
    /\ req.op = "idle"
    /\ req' = [op |-> "establish", section |-> 1, child |-> 1, before |-> sections]
    /\ UNCHANGED <<res, sections, temperature_map, query, materials, original_data, registry, thermal_info_templates, runtime_sections>>

\* one turn of `for child in section.children`: the child at the loop's
\* index is added again to the list the loop is reading
EstablishChild ==
    /\ req.op = "establish"
    /\ req.section <= Len(sections)
    /\ req.child <= Len(sections[req.section].children)
    /\ Len(sections[req.section].children) < MaxListLen
    /\ sections' = [sections EXCEPT ![req.section] =
                       add_child_with_operation(@, @.children[req.child], "difference")]
    /\ req' = [req EXCEPT !.child = @ + 1]
    /\ UNCHANGED <<res, temperature_map, query, materials, original_data, registry, thermal_info_templates, runtime_sections>>

\* the same turn when the list cannot grow any more
EstablishExhausted ==
    /\ req.op = "establish"
    /\ req.section <= Len(sections)
    /\ req.child <= Len(sections[req.section].children)
    /\ Len(sections[req.section].children) >= MaxListLen
    /\ req' = [req EXCEPT !.op = "failed"]
    /\ res' = Raise("MemoryError")
    /\ UNCHANGED <<sections, temperature_map, query, materials, original_data, registry, thermal_info_templates, runtime_sections>>

\* the inner loop's index has reached the length of the list (also: the
\* section has no children): the outer loop takes the next section
EstablishNextSection ==
    /\ req.op = "establish"
    /\ req.section <= Len(sections)
    /\ req.child > Len(sections[req.section].children)
    /\ req' = [req EXCEPT !.section = @ + 1, !.child = 1]
    /\ UNCHANGED <<res, sections, temperature_map, query, materials, original_data, registry, thermal_info_templates, runtime_sections>>

\* the outer loop is through: the method returns None
EstablishReturn ==
    /\ req.op = "establish"
    /\ req.section > Len(sections)
    /\ req' = [req EXCEPT !.op = "established"]
    /\ res' = Ok(NoneVal)
    /\ UNCHANGED <<sections, temperature_map, query, materials, original_data, registry, thermal_info_templates, runtime_sections>>

InitRel ==
    /\ req = [op |-> "idle"]
    /\ res = NoResult
    /\ temperature_map = <<>>
    /\ query = [op |-> "idle"]
    /\ materials = <<>>
    /\ original_data = [templates |-> <<>>, sections |-> <<>>]
    /\ sections \in RelSections
    /\ registry = {}
    /\ thermal_info_templates = [present |-> FALSE, entries |-> <<>>]
    /\ runtime_sections = <<>>

NextRel ==
    \/ Establish \/ EstablishChild \/ EstablishExhausted
    \/ EstablishNextSection \/ EstablishReturn

\* the interpreter keeps running the loop
SpecRel == InitRel /\ [][NextRel]_vars /\ WF_vars(NextRel)

\* ------------------------------------------------------------------------
\* Runtime specification: a ThermalInfo whose part list is the empty PkgDie
\* of its constructor receives add_section, add_runtime_section and
\* init_runtime_sections calls in any order
\* ------------------------------------------------------------------------
MaxRuntime == 4
RuntimeNames == {"A", "B", "C"}

\* the names of the sections in a list
NamesIn(list) == {list[i].name : i \in 1..Len(list)}

\* how many places of a list hold the section of a name
Occurrences(list, name) == Cardinality({i \in 1..Len(list) : list[i].name = name})

\* ThermalInfo.add_section of a section not added before
AddSection ==
    /\ \E name \in RuntimeNames \ NamesIn(sections) :
          /\ sections' = Append(sections, NewSection(name, <<>>))
          /\ req' = [op |-> "add_section", name |-> name]
    /\ UNCHANGED <<res, temperature_map, query, materials, original_data, registry, thermal_info_templates, runtime_sections>>

\* ThermalInfo.add_runtime_section
AddRuntimeSection ==
    /\ Len(runtime_sections) < MaxRuntime
    /\ \E name \in RuntimeNames :
          /\ runtime_sections' = Append(runtime_sections, NewSection(name, <<>>))
          /\ req' = [op |-> "add_runtime_section", name |-> name]
    /\ UNCHANGED <<res, temperature_map, query, materials, original_data, sections, registry, thermal_info_templates>>

\* ThermalInfo.init_runtime_sections: a non-empty runtime list is returned as
\* it is; an empty one is first filled with the sections (the part list has
\* no components to add)
init_runtime_sections(runtime, added) == IF runtime # <<>> THEN runtime ELSE added

InitRuntimeSections ==
    /\ runtime_sections' = init_runtime_sections(runtime_sections, sections)
    /\ query' = [op |-> "init_runtime_sections", added |-> sections,
                 result |-> init_runtime_sections(runtime_sections, sections)]
    /\ req' = [op |-> "init_runtime_sections", again |-> req.op = "init_runtime_sections",
               previous |-> IF query.op = "init_runtime_sections" THEN query.result ELSE <<>>]
    /\ UNCHANGED <<res, temperature_map, materials, original_data, sections, registry, thermal_info_templates>>

InitRun ==
    /\ req = [op |-> "idle"]
    /\ res = NoResult
    /\ InitRest

NextRun == AddSection \/ AddRuntimeSection \/ InitRuntimeSections

SpecRun == InitRun /\ [][NextRun]_vars




\* ------------------------------------------------------------------------
\* Properties of the shape kernel and the shape parser (SpecShape)
\* ------------------------------------------------------------------------
\* the parameter names an argument list of the current request is read by
ReqNames == IF req.op = "parse" THEN GrammarNames(req.kind) ELSE DimNames(req.kind)

\* the current request asked for a shape with an invalid dimension
ReqInvalid ==
    /\ req.op \in {"construct", "parse"}
    /\ HasInvalidArg(ReqNames, req.args)

\* Python max-free form of the cube rule's substitution
CubeDimOf(v) == IF v <= 0 THEN CubeMinDim ELSE v

\* C7 as stated: whatever the way of creation, a request with a dimension
\* <= 0 (or sides < 3) fails and yields no shape object.
C7_AsStated == ReqInvalid => ~res.ok

\* C7 amended: direct construction with a dimension <= 0 (or sides < 3)
\* raises ValueError; the parser raises ShapeParsingError for every rule but
\* the cube rule, which yields a cube whose non-positive dimensions are
\* replaced by 0.001.
C7_InvalidDimension ==
    ReqInvalid =>
        IF req.op = "construct" THEN ~res.ok /\ res.err = "ValueError"
        ELSE IF req.kind # "cube" THEN ~res.ok /\ res.err = "ShapeParsingError"
        ELSE /\ res.ok
             /\ res.v.kind = "cube"
             /\ res.v.length = CubeDimOf(req.args[1])
             /\ res.v.width = CubeDimOf(req.args[2])
             /\ res.v.height = CubeDimOf(req.args[3])

\* a cube text with a zero length was parsed into a cube of length 0.001
C7_Witness ==
    /\ req.op = "parse" /\ req.kind = "cube"
    /\ req.args[1] = 0 /\ req.args[2] > 0
    /\ res.ok /\ res.v.length = CubeMinDim /\ res.v.width = req.args[2]

\* the shape's dimensions are the request's arguments in grammar order (the
\* first hexagonal_prism parameter is accepted as radius or as diameter, the
\* oblique_cube parameters as width and height)
DimsInGrammarOrder(s, kind, a) ==
    CASE kind = "hexagonal_prism" ->
            (s.radius = a[1] \/ s.diameter = a[1]) /\ s.height = a[2]
      [] kind = "oblique_cube" -> s.width = a[1] /\ s.height = a[2]
      [] OTHER -> \A i \in 1..Len(a) : s[DimNames(kind)[i]] = a[i]

\* the request is a parse of a well formed text with valid parameters
ValidParse ==
    /\ req.op = "parse"
    /\ ~HasInvalidArg(ReqNames, req.args)
    /\ CornerFits(req.kind, req.args)
    /\ ("sides" \in {ReqNames[i] : i \in 1..Len(ReqNames)} => req.form = "int")

\* C8 as stated: parsing a valid text of any 3D grammar rule returns a shape
\* of that variant, at the given position, with the given dimensions in
\* grammar order.
C8_AsStated ==
    (ValidParse /\ req.kind \in Kinds3D) =>
        /\ res.ok
        /\ res.v.kind = req.kind
        /\ res.v.position = req.position
        /\ DimsInGrammarOrder(res.v, req.kind, req.args)

\* C9 as stated: parsing the printed form of a valid shape succeeds and
\* returns the same variant with the same dimensions and position.
C9_AsStated == req.op = "reparse" => (res.ok /\ res.v = req.shape)

\* C10 as stated: the bounding box of a shape built with positive dimensions
\* has a volume (area in 2D) no smaller than the shape's own.
C10_AsStated ==
    req.op = "measure" => (res.ok /\ RLe(res.v.size, RInt(res.v.box)))

\* C11 as stated: every shape built with positive dimensions, a generic
\* prism over any 2D base shape included, contains its own position.
C11_AsStated == req.op = "contains" => (res.ok /\ res.v = TRUE)

\* the requests that run ShapeParser.parse_shape_string
ParseOps == {"parse", "reparse", "parse_prism", "parse_malformed"}

\* the children of every section are the children it had at the call, each
\* tagged 'difference'
SameChildrenTagged ==
    /\ Len(sections) = Len(req.before)
    /\ \A i \in 1..Len(sections) :
          /\ Len(sections[i].children) = Len(req.before[i].children)
          /\ \A k \in 1..Len(sections[i].children) :
                sections[i].children[k] =
                    [req.before[i].children[k] EXCEPT !.boolean_operation = "difference"]

\* C28 as stated: establish_parent_child_relationships terminates for every
\* finite list of sections and leaves each section with the same children as
\* before (no child duplicated), each tagged 'difference'
C28_AsStated == (req.op = "establish") ~> (req.op = "established" /\ SameChildrenTagged)

\* C29 as stated: the list returned by init_runtime_sections contains every
\* section added so far through add_section exactly once, and a repeated
\* call does not change the list
C29_AsStated ==
    query.op = "init_runtime_sections" =>
        /\ \A name \in NamesIn(query.added) : Occurrences(query.result, name) = 1
        /\ (req.op = "init_runtime_sections" /\ req.again) => query.result = req.previous

\* C25 as stated: a point inside the enclosing rectangle of a rounded or
\* chamfered variant is contained unless it lies in a corner region and the
\* nearest corner excludes it: rounded, iff its distance to the arc centre
\* on its own side is at most the radius; chamfered, iff
\* (|dx| - (halfW - c)) + (|dy| - (halfH - c)) <= c.
C25_AsStated ==
    req.op = "contains_offset" =>
        LET sh == req.shape
            dx == Abs(req.point.x - sh.position.x)
            dy == Abs(req.point.y - sh.position.y)
            hw == sh.width \div 2
            hh == IF sh.kind \in Kinds2D THEN sh.height \div 2 ELSE sh.depth \div 2
            c == IF sh.kind \in {"rounded_rect_prism", "rounded_rectangle"}
                 THEN sh.radius ELSE sh.chamfer
            in_corner == dx > hw - c /\ dy > hh - c
            kept == IF sh.kind \in {"rounded_rect_prism", "rounded_rectangle"}
                    THEN (dx - (hw - c)) * (dx - (hw - c)) + (dy - (hh - c)) * (dy - (hh - c))
                            <= c * c
                    ELSE (dx - (hw - c)) + (dy - (hh - c)) <= c
        IN  (dx <= hw /\ dy <= hh) => (res.v <=> (~in_corner \/ kept))

\* C30: a text made of a valid shape encoding followed by extra characters
\* after the closing parenthesis is rejected with the parser's error
C30_AsStated ==
    req.op = "parse_trailing" => (~res.ok /\ res.err = "ShapeParsingError")

\* C19: parse_shape_string returns a shape or raises ShapeParsingError and
\* nothing else; an empty text, a text of no rule, a text of wrong arity and
\* a text with a word in a numeric slot all raise it.
C19_ParserErrors ==
    req.op \in ParseOps =>
        /\ res.ok \/ res.err = "ShapeParsingError"
        /\ req.op = "parse_malformed" => ~res.ok

\* a cube text with a word as its first dimension was refused with the
\* parser's error, converted from float()'s ValueError
C19_Witness ==
    /\ req.op = "parse_malformed" /\ req.kind = "cube" /\ req.defect = "word_arg"
    /\ ~res.ok /\ res.err = "ShapeParsingError" /\ res.msg = "ValueError"

\* C20 as stated: a prism text over the text of a 2D shape, with h > 0,
\* parses to a Prism of height h wrapping the parsed base; over the text of
\* a 3D shape it fails with the prism-base-must-be-2D error.
C20_AsStated ==
    (req.op = "parse_prism" /\ req.height > 0) =>
        IF req.base_kind \in Kinds2D
        THEN /\ res.ok
             /\ res.v.kind = "prism"
             /\ res.v.height = req.height
             /\ Ok(res.v.base_shape) = parse_shape_string(req.base)
        ELSE IF req.base_kind \in Kinds3D
        THEN ~res.ok /\ res.msg = "Prism base shape must be a 2D shape"
        ELSE ~res.ok


\* ------------------------------------------------------------------------
\* Properties of MaterialInfo (SpecMat)
\* ------------------------------------------------------------------------
\* the temperature points of the material, whatever their insertion order
StoredPoints == {temperature_map[i] : i \in 1..Len(temperature_map)}

\* p1 and p2 are neighbours in temperature order and bracket the temperature
Brackets(p1, p2, temperature) ==
    /\ p1 \in StoredPoints /\ p2 \in StoredPoints
    /\ p1.temperature < p2.temperature
    /\ \A q \in StoredPoints :
          ~(p1.temperature < q.temperature /\ q.temperature < p2.temperature)
    /\ p1.temperature <= temperature /\ temperature <= p2.temperature

\* v is the value at the temperature of the piecewise-linear function through
\* the stored points, f giving the property's value at a point
IsPiecewiseLinear(v, temperature, f(_)) ==
    LET lo == CHOOSE p \in StoredPoints :
                 \A q \in StoredPoints : p.temperature <= q.temperature
        hi == CHOOSE p \in StoredPoints :
                 \A q \in StoredPoints : p.temperature >= q.temperature
    IN  IF temperature < lo.temperature THEN v = RInt(f(lo))
        ELSE IF temperature > hi.temperature THEN v = RInt(f(hi))
        ELSE /\ \E p1, p2 \in StoredPoints : Brackets(p1, p2, temperature)
             /\ \A p1, p2 \in StoredPoints :
                   Brackets(p1, p2, temperature) =>
                      LET dt == p2.temperature - p1.temperature
                      IN  REq(v, [n |-> f(p1) * dt
                                        + (temperature - p1.temperature) * (f(p2) - f(p1)),
                                  d |-> dt])

KxOf(p) == p.conductivity.x
KyOf(p) == p.conductivity.y
KzOf(p) == p.conductivity.z
DensityOf(p) == p.density
HeatCapacityOf(p) == p.heat_capacity

\* C3: with at least two temperature points, conductivity (per axis),
\* density and heat capacity at T are the piecewise-linear function through
\* the points sorted by temperature, clamped outside their range, whatever
\* the order in which the points were added.
C3_PiecewiseLinear ==
    (query.op = "properties" /\ Len(temperature_map) >= 2) =>
        /\ IsPiecewiseLinear(query.conductivity.x, query.temperature, KxOf)
        /\ IsPiecewiseLinear(query.conductivity.y, query.temperature, KyOf)
        /\ IsPiecewiseLinear(query.conductivity.z, query.temperature, KzOf)
        /\ IsPiecewiseLinear(query.density, query.temperature, DensityOf)
        /\ IsPiecewiseLinear(query.heat_capacity, query.temperature, HeatCapacityOf)

\* points added hottest first, queried strictly between two of them, with a
\* density half way between two whole numbers
C3_Witness ==
    /\ Len(temperature_map) >= 2
    /\ temperature_map[1].temperature > temperature_map[2].temperature
    /\ query.op = "properties"
    /\ query.temperature \notin {p.temperature : p \in StoredPoints}
    /\ query.density.d = 2

\* C4: with exactly one temperature point every query returns that point's
\* conductivity, density and heat capacity, whatever the temperature.
C4_SinglePoint ==
    (query.op = "properties" /\ Len(temperature_map) = 1) =>
        /\ query.conductivity = [x |-> RInt(temperature_map[1].conductivity.x),
                                 y |-> RInt(temperature_map[1].conductivity.y),
                                 z |-> RInt(temperature_map[1].conductivity.z)]
        /\ query.density = RInt(temperature_map[1].density)
        /\ query.heat_capacity = RInt(temperature_map[1].heat_capacity)

\* a single point material queried away from its point's temperature
C4_Witness ==
    /\ Len(temperature_map) = 1
    /\ query.op = "properties"
    /\ query.temperature > temperature_map[1].temperature
    /\ query.conductivity.y = RInt(4)


\* ------------------------------------------------------------------------
\* Properties of CompositeMaterial (SpecComp)
\* ------------------------------------------------------------------------
\* every component material has at least one temperature point, so that each
\* of its properties has a value
ComponentsHaveData ==
    \A i \in 1..Len(materials) : materials[i].material.temperature_map # <<>>

\* sum over components 1..n of fraction * f(material's map)
RECURSIVE FractionSum(_, _)
FractionSum(f(_), n) ==
    IF n = 0 THEN RInt(0)
    ELSE RAdd(FractionSum(f, n - 1),
              RMul(R(materials[n].percentage, PctOne),
                   f(materials[n].material.temperature_map)))

\* C5: the effective conductivity (per axis), density and heat capacity of a
\* composite are the sums over its components of fraction times the
\* component's property at T, whether or not the fractions sum to 1.
C5_WeightedSum ==
    (query.op = "effective" /\ materials # <<>> /\ ComponentsHaveData) =>
        LET T == query.temperature
            Kx(tm) == get_conductivity(tm, T).x
            Ky(tm) == get_conductivity(tm, T).y
            Kz(tm) == get_conductivity(tm, T).z
            Rho(tm) == get_density(tm, T)
            Cp(tm) == get_heat_capacity(tm, T)
            n == Len(materials)
        IN  /\ REq(query.conductivity.x, FractionSum(Kx, n))
            /\ REq(query.conductivity.y, FractionSum(Ky, n))
            /\ REq(query.conductivity.z, FractionSum(Kz, n))
            /\ query.density.ok /\ REq(query.density.v, FractionSum(Rho, n))
            /\ query.heat_capacity.ok
            /\ REq(query.heat_capacity.v, FractionSum(Cp, n))

\* materials A and B with positive fractions that do not sum to 1.0, the
\* effective properties queried
C5_Witness ==
    /\ Len(materials) = 2
    /\ materials[1].material.name = "A" /\ materials[2].material.name = "B"
    /\ materials[1].percentage + materials[2].percentage # PctOne
    /\ materials[1].percentage > 0 /\ materials[2].percentage > 0
    /\ query.op = "effective"
    /\ query.density.ok /\ query.density.v.n > 0

\* the composite is a non-empty list of valid materials, each with a
\* fraction in (0,1]
WellFormedComposite ==
    /\ materials # <<>>
    /\ \A i \in 1..Len(materials) :
          /\ MaterialInfo_validate(materials[i].material)
          /\ materials[i].percentage > 0
          /\ materials[i].percentage <= PctOne

\* C6 as stated: validation passes for every non-empty list of valid
\* materials with fractions in (0,1], even when the fractions do not sum to 1.
C6_AsStated == (query.op = "validate" /\ WellFormedComposite) => query.result

\* C6 amended: validation passes exactly when the list is non-empty, every
\* material is valid, every fraction is in (0,1] and the fractions sum to 1.0
\* (within 1e-6); a sum other than 1.0 makes validation fail.
C6_Validate ==
    query.op = "validate" =>
        (query.result <=>
            (WellFormedComposite /\ total_percentage(materials) = PctOne))

\* a well formed composite whose fractions sum to 0.6 was rejected
C6_Witness ==
    /\ query.op = "validate"
    /\ WellFormedComposite
    /\ total_percentage(materials) < PctOne
    /\ ~query.result


\* ------------------------------------------------------------------------
\* Properties of the assembly (SpecAsm).  Section i of the model was built
\* from record i of the description, child j of it from child record j.
\* ------------------------------------------------------------------------
SetMin(S) == CHOOSE m \in S : \A n \in S : m <= n
SetMax(S) == CHOOSE m \in S : \A n \in S : m >= n

\* the variants of the template called by the reference, <<>> when the
\* table has no such template
VariantsOf(ref) ==
    IF \E t \in 1..Len(original_data.templates) : original_data.templates[t].name = ref.name
    THEN original_data.templates[
            SetMin({t \in 1..Len(original_data.templates) :
                       original_data.templates[t].name = ref.name})].shapes
    ELSE <<>>

HasTemplate(ref) ==
    \E t \in 1..Len(original_data.templates) : original_data.templates[t].name = ref.name

\* the indices of the variants tagged with the section name
TaggedWith(vs, section_name) == {k \in 1..Len(vs) : vs[k].section = section_name}

\* the text is `cube([0,0,0],L,W,H)` with L, W, H > 0
IsOriginCube(text) ==
    /\ text.name = "cube"
    /\ text.groups = <<<<IntTok(0), IntTok(0), IntTok(0)>>>>
    /\ Len(text.args) = 3
    /\ \A k \in 1..3 : text.args[k].val > 0

\* the child carries only a template reference, written N([x,y,z])
OnlyTemplateRef(child_data) ==
    /\ child_data.keys = {"template"}
    /\ child_data.template.matches
    /\ Len(child_data.template.coords) = 3
    /\ HasTemplate(child_data.template)

\* what C1 requires of child c built from child_data inside the section
ResolvedAsStated(c, child_data, section_name) ==
    LET vs == VariantsOf(child_data.template)
        tagged == TaggedWith(vs, section_name)
        xyz == child_data.template.coords
    IN  IF tagged = {}
        THEN c.shape = NoneVal /\ c.position = NoneVal /\ c.material = NoneVal
        ELSE IsOriginCube(vs[SetMin(tagged)].shape) =>
                /\ c.shape # NoneVal
                /\ c.shape.kind = "cube"
                /\ c.shape.length = vs[SetMin(tagged)].shape.args[1].val
                /\ c.shape.width = vs[SetMin(tagged)].shape.args[2].val
                /\ c.shape.height = vs[SetMin(tagged)].shape.args[3].val
                /\ c.shape.position = Vec(xyz[1].val, xyz[2].val, xyz[3].val)
                /\ c.position = PyList(<<xyz[1].val, xyz[2].val, xyz[3].val>>)

\* C1: a child whose record carries only the reference N([x,y,z]), inside a
\* Section named S, gets the cube (L,W,H) of N's (first) variant tagged S,
\* positioned at (x,y,z), and the position [x,y,z]; inside a Section whose
\* name equals no tag of N it gets no shape (the reference resolves to None).
C1_TemplateResolution ==
    \A i \in 1..Len(sections) :
        \A j \in 1..Len(original_data.sections[i].children) :
            OnlyTemplateRef(original_data.sections[i].children[j]) =>
                ResolvedAsStated(sections[i].children[j],
                                 original_data.sections[i].children[j],
                                 sections[i].name)

\* a child T1([4,4,4]) of Section Die received the 2 x 4 x 6 cube of the
\* variant tagged Die, at (4,4,4)
C1_Witness ==
    \E i \in 1..Len(sections) :
        /\ sections[i].name = "Die"
        /\ \E j \in 1..Len(sections[i].children) :
              /\ OnlyTemplateRef(original_data.sections[i].children[j])
              /\ sections[i].children[j].shape # NoneVal
              /\ sections[i].children[j].shape.length = 2
              /\ sections[i].children[j].shape.height = 6
              /\ sections[i].children[j].shape.position = Vec(4, 4, 4)
              /\ sections[i].children[j].position = PyList(<<4, 4, 4>>)

\* the record's shape is a cube with zero size
IsZeroCube(section_data) ==
    /\ "shape" \in section_data.keys
    /\ section_data.shape.name = "cube"
    /\ Len(section_data.shape.args) = 3
    /\ \A k \in 1..3 : section_data.shape.args[k].val = 0

\* the cubes owned by the children of a section
ChildCubes(section) ==
    {section.children[j].shape : j \in {k \in 1..Len(section.children) :
                                           section.children[k].shape # NoneVal}}

\* extent of the union of the children's boxes along x, y and z
UnionExtentX(section) ==
    SetMax({c.position.x + c.length \div 2 : c \in ChildCubes(section)})
    - SetMin({c.position.x - c.length \div 2 : c \in ChildCubes(section)})
UnionExtentY(section) ==
    SetMax({c.position.y + c.width \div 2 : c \in ChildCubes(section)})
    - SetMin({c.position.y - c.width \div 2 : c \in ChildCubes(section)})
UnionExtentZ(section) ==
    SetMax({c.position.z + c.height \div 2 : c \in ChildCubes(section)})
    - SetMin({c.position.z - c.height \div 2 : c \in ChildCubes(section)})

\* C2 as stated: a Section built from a record with a zero size cube and
\* children that carry shapes ends with its cube resized to the union of
\* the children's bounding boxes.
C2_AsStated ==
    \A i \in 1..Len(sections) :
        (IsZeroCube(original_data.sections[i]) /\ ChildCubes(sections[i]) # {}) =>
            /\ sections[i].shape # NoneVal
            /\ sections[i].shape.length = UnionExtentX(sections[i])
            /\ sections[i].shape.width = UnionExtentY(sections[i])
            /\ sections[i].shape.height = UnionExtentZ(sections[i])

\* ------------------------------------------------------------------------
\* Properties of SectionComponent.from_json (SpecChild)
\* ------------------------------------------------------------------------
\* the record names its material itself
HasInlineMaterial(child_data) == child_data.keys \cap {"material", "materials"} # {}

\* the name the record gives to its material
InlineMaterialName(child_data) ==
    IF "material" \in child_data.keys THEN child_data.material
    ELSE child_data.materials[1].name

\* the registered material of the name, None when the registry has none
Registered(material_name) ==
    IF \E m \in Catalog : m.name = material_name
    THEN CHOOSE m \in Catalog : m.name = material_name
    ELSE NoneVal

\* C12: a record that names its material is resolved without the templates
\* table, a template reference in the record notwithstanding: the component
\* has the registered material of that name, no shape and no position, as
\* it would with an empty templates table; and a second build from the same
\* record yields the same material, shape and position.
C12_ExplicitIdempotent ==
    (req.op \in {"from_json", "rebuild"} /\ HasInlineMaterial(req.data)) =>
        /\ res.ok
        /\ res.v.material = Registered(InlineMaterialName(req.data))
        /\ res.v.shape = NoneVal
        /\ res.v.position = NoneVal
        /\ res.v = SectionComponent_from_json(req.data, req.parent_section_name,
                        [original_data EXCEPT !.templates = <<>>])
        /\ req.op = "rebuild" =>
              /\ res.v.material = req.first.material
              /\ res.v.shape = req.first.shape
              /\ res.v.position = req.first.position

\* a record with material A and a reference to T1, inside Section Die whose
\* name tags a variant of T1, was built twice: material A, no shape
C12_Witness ==
    /\ req.op = "rebuild"
    /\ req.data.keys = {"template", "material"}
    /\ req.data.material = "A"
    /\ req.parent_section_name = "Die"
    /\ HasTemplate(req.data.template)
    /\ TaggedWith(VariantsOf(req.data.template), "Die") # {}
    /\ res.v.material # NoneVal /\ res.v.material.name = "A"
    /\ res.v.shape = NoneVal
    /\ res.v.material = req.first.material
    /\ res.v.position = req.first.position

\* C13 as stated: a record with an inline shape string gets that string
\* parsed and installed as the component's shape.
C13_AsStated ==
    (req.op = "from_json" /\ "shape" \in req.data.keys) =>
        /\ res.ok
        /\ Ok(res.v.shape) = parse_shape_string(req.data.shape)

\* the reference is not of the form Identifier([num,num,num])
MalformedRef(ref) ==
    \/ ~ref.matches
    \/ Len(ref.coords) # 3
    \/ \E k \in 1..Len(ref.coords) : ~ToFloat(ref.coords[k]).ok

\* the record carries a reference and nothing else
ReferenceOnly(child_data) == child_data.keys = {"template"}

\* C14 as stated: a reference that is not Identifier([num,num,num]) resolves
\* to None: the component gets no material, no shape and no position.
C14_AsStated ==
    (req.op = "from_json" /\ ReferenceOnly(req.data) /\ MalformedRef(req.data.template)) =>
        /\ res.v.material = NoneVal
        /\ res.v.shape = NoneVal
        /\ res.v.position = NoneVal

\* the request resolved a reference that matches the pattern and names a
\* template of the table, whose definition is the one the lookup found
ResolvedReference ==
    /\ req.op = "from_json"
    /\ ReferenceOnly(req.data)
    /\ req.data.template.matches
    /\ HasTemplate(req.data.template)
    /\ IndexedDefinition(req.data.template.name) = NoneVal

\* the variants of the called template whose tag equals the parent's name
TaggedVariants == TaggedWith(VariantsOf(req.data.template), req.parent_section_name)

\* the first of them
FirstTagged == VariantsOf(req.data.template)[SetMin(TaggedVariants)]

\* C15: of several variants the first in list order whose tag equals the
\* parent Section's name (string equality) is the one used, later ones are
\* ignored; with no equal tag the reference resolves to None.
C15_FirstExactVariant ==
    ResolvedReference =>
        IF TaggedVariants = {}
        THEN res.v.material = NoneVal /\ res.v.shape = NoneVal /\ res.v.position = NoneVal
        ELSE /\ res.v.material = Registered(FirstMaterialName(FirstTagged))
             /\ res.v.shape =
                    ShapeOrNone(parse_shape_string(
                        SubstitutePosition(FirstTagged.shape, req.data.template.coords)))
             /\ res.v.position # NoneVal

\* T1 has two variants tagged Die with different cubes; the child of Section
\* Die received the first one's
C15_Witness ==
    /\ ResolvedReference
    /\ req.parent_section_name = "Die"
    /\ TaggedVariants = {1, 2}
    /\ \A i \in {1, 2} : VariantsOf(req.data.template)[i].shape.name = "cube"
    /\ res.v.shape # NoneVal
    /\ res.v.shape.height = VariantsOf(req.data.template)[1].shape.args[3].val
    /\ res.v.shape.height # VariantsOf(req.data.template)[2].shape.args[3].val

\* C16: for the matched variant the material is present exactly when its
\* name is registered, the shape exactly when the substituted text parses,
\* the position always; nothing is raised.
C16_PartialSuccess ==
    (ResolvedReference /\ TaggedVariants # {}) =>
        /\ res.ok
        /\ res.v.material # NoneVal <=>
              FirstMaterialName(FirstTagged) \in {m.name : m \in Catalog}
        /\ res.v.material # NoneVal =>
              res.v.material.name = FirstMaterialName(FirstTagged)
        /\ res.v.shape # NoneVal <=>
              parse_shape_string(
                  SubstitutePosition(FirstTagged.shape, req.data.template.coords)).ok
        /\ res.v.position = RefPosition(req.data.template.coords)

\* a reference with two coordinates found its variant's registered material
\* although the substituted shape text did not parse
C16_Witness ==
    /\ ResolvedReference
    /\ TaggedVariants # {}
    /\ Len(req.data.template.coords) = 2
    /\ res.v.material # NoneVal
    /\ res.v.shape = NoneVal
    /\ res.v.position = PyList(<<0, 0, 0>>)

InIndex(template_name) ==
    /\ thermal_info_templates.present
    /\ \E i \in 1..Len(thermal_info_templates.entries) :
          thermal_info_templates.entries[i].name = template_name

Shaped(section) ==
    {section.children[j] : j \in {k \in 1..Len(section.children) :
                                      section.children[k].shape # NoneVal}}

\* the box of the child's shape, taken about the origin and translated by
\* the child's own position
TranslatedBox(c) ==
    LET b == get_bounding_box([c.shape EXCEPT !.position = Vec(0, 0, 0)]).v
        p == IF c.position = NoneVal THEN <<0, 0, 0>> ELSE c.position.v
    IN  <<b.min_x + p[1], b.min_y + p[2], b.min_z + p[3],
          b.max_x + p[1], b.max_y + p[2], b.max_z + p[3]>>

\* C23 as stated: the children union is, per axis, the minimum and maximum
\* over the children that own a shape of the shape's box translated by the
\* child's own position, and the all-zero box when no child owns a shape.
C23_AsStated ==
    query.op = "union" =>
        LET boxes == {TranslatedBox(c) : c \in Shaped(sections[query.section])}
        IN  IF boxes = {} THEN query.result = Ok(<<0, 0, 0, 0, 0, 0>>)
            ELSE query.result =
                    Ok(<<SetMin({b[1] : b \in boxes}), SetMin({b[2] : b \in boxes}),
                         SetMin({b[3] : b \in boxes}), SetMax({b[4] : b \in boxes}),
                         SetMax({b[5] : b \in boxes}), SetMax({b[6] : b \in boxes})>>)

\* C17 as stated: no exception leaves the building of a Section.
C17_AsStated == res = NoResult

\* the composite the record's materials describe: registry material and
\* volume fraction, in record order
CompositeOf(mats) ==
    [t |-> "composite",
     materials |-> [k \in 1..Len(mats) |-> <<Registered(mats[k].name), mats[k].percentage>>]]

\* C18 as stated: a Section whose record lists two or more materials is
\* built and owns the composite of those materials.
C18_AsStated ==
    \A i \in 1..Len(original_data.sections) :
        ("materials" \in original_data.sections[i].keys
            /\ Len(original_data.sections[i].materials) >= 2) =>
            /\ i <= Len(sections)
            /\ sections[i].material = CompositeOf(original_data.sections[i].materials)
\* ------------------------------------------------------------------------
\* Properties of MaterialInfo.validate and of the temperature map (SpecVal)
\* ------------------------------------------------------------------------
\* some stored temperature is negative
HasNegativeTemperature == \E i \in 1..Len(temperature_map) : temperature_map[i].temperature < 0

\* some stored point has a non-positive density or heat capacity
HasNonPositiveProperty ==
    \E i \in 1..Len(temperature_map) :
        temperature_map[i].density <= 0 \/ temperature_map[i].heat_capacity <= 0

\* C21: validation returns false when the temperature map is empty or a
\* temperature is negative; for a named material with a non-empty map of
\* non-negative temperatures it returns true, whatever the densities and
\* heat capacities are.
C21_Validate ==
    query.op = "validate" =>
        /\ (temperature_map = <<>> \/ HasNegativeTemperature) => ~query.result
        /\ (query.name # "" /\ temperature_map # <<>> /\ ~HasNegativeTemperature)
              => query.result

\* a material with a point of non-positive density at a non-negative
\* temperature passed validation
C21_Witness ==
    /\ query.op = "validate"
    /\ query.name # ""
    /\ HasNonPositiveProperty
    /\ ~HasNegativeTemperature
    /\ query.result

\* the temperatures of the calls made so far
CalledTemperatures == {req.calls[k][1] : k \in 1..Len(req.calls)}

\* the last call made with the temperature
LastCallAt(temperature) ==
    req.calls[SetMax({k \in 1..Len(req.calls) : req.calls[k][1] = temperature})]

\* the point a call stores
PointOfCall(call) ==
    TemperaturePoint(call[1], Conductivity(call[2][1], call[2][2], call[2][3]),
                     call[2][4], call[2][5])

\* C27: the map holds exactly one point per distinct temperature added, the
\* one of the most recent call with that temperature, and
\* is_temperature_dependent() is true iff two or more distinct temperatures
\* have been added.
C27_OnePointPerTemperature ==
    /\ Len(temperature_map) = Cardinality(CalledTemperatures)
    /\ {temperature_map[i] : i \in 1..Len(temperature_map)}
          = {PointOfCall(LastCallAt(t)) : t \in CalledTemperatures}
    /\ is_temperature_dependent(temperature_map) <=> Cardinality(CalledTemperatures) >= 2
    /\ query.op = "is_temperature_dependent" =>
          (query.result <=> Cardinality(CalledTemperatures) >= 2)

\* three calls, two of them with the same temperature and different values,
\* left two points and a temperature dependent material
C27_Witness ==
    /\ Len(req.calls) = 3
    /\ Cardinality(CalledTemperatures) = 2
    /\ req.calls[1][1] = req.calls[3][1]
    /\ req.calls[1][2] # req.calls[3][2]
    /\ query.op = "is_temperature_dependent"
    /\ query.result
\* ------------------------------------------------------------------------
\* Properties of the setters (SpecSet)
\* ------------------------------------------------------------------------
\* the dimension fields
DimensionFields ==
    {"length", "width", "height", "depth", "radius", "diameter", "side", "chamfer",
     "radius_x", "radius_y"}

\* the invariant of a shape object: positive dimensions, three sides or
\* more, a corner no larger than half the smaller planar dimension, derived
\* fields that follow their primaries, a base shape under a prism
ShapeInvariant(s) ==
    /\ \A f \in DOMAIN s \cap DimensionFields : s[f] > 0
    /\ "sides" \in DOMAIN s => s.sides >= 3
    /\ s.kind \in {"rounded_rect_prism", "rounded_rectangle"} =>
          \A f \in PlanarFields(s.kind) : 2 * s.radius <= s[f]
    /\ s.kind \in {"chamfered_rect_prism", "chamfered_rectangle"} =>
          \A f \in PlanarFields(s.kind) : 2 * s.chamfer <= s[f]
    /\ s.kind \in {"hexagonal_prism", "n_sided_polygon_prism", "n_sided_polygon"} =>
          2 * s.radius = s.diameter
    /\ s.kind = "hexagonal_prism" =>
          REq(RMul(s.side_length, RInt(2)), RMul(RInt(s.diameter), Sqrt3))
    /\ s.kind \in {"oblong_y_prism", "oblong_y"} =>
          (2 * s.radius_x = s.width /\ 2 * s.radius_y = s.length)
    /\ s.kind \in {"oblong_x_prism", "oblong_x"} =>
          (2 * s.radius_x = s.length /\ 2 * s.radius_y = s.width)
    /\ s.kind = "prism" => s.base_shape # NoneVal

\* C24: after every setter call the object keeps its invariant; the call
\* succeeds exactly when the value, written into the field (and its derived
\* fields), keeps the invariant; a failed call raises ValueError and leaves
\* every field and is_modified as they were, a successful one has set the
\* field and is_modified.
C24_Setters ==
    req.op = "set" =>
        /\ ShapeInvariant(req.shape)
        /\ res.ok <=> ShapeInvariant(SetterAssign(req.before, req.name, req.value))
        /\ ~res.ok => (res.err = "ValueError" /\ req.shape = req.before)
        /\ res.ok => /\ req.shape.is_modified
                      /\ req.shape[req.name] = req.value
                      /\ \A f \in DOMAIN req.shape \ (DimensionFields \cup {"is_modified", "sides", "skew_x", "skew_y", "base_shape", "side_length"}) :
                            req.shape[f] = req.before[f]

\* set_width with a positive width smaller than twice the corner radius of a
\* rounded prism raised and left the untouched object as it was
C24_Witness ==
    /\ req.op = "set"
    /\ req.shape.kind = "rounded_rect_prism"
    /\ req.name = "width"
    /\ req.value > 0
    /\ ~res.ok
    /\ req.shape = req.before
    /\ ~req.shape.is_modified

====
